---- MODULE Spec2Model ----
(***************************************************************************)
(* claude-sandbox: the session pipeline of createSandbox (src/src/cli.ts)  *)
(* as started by the command-line entry point (src/src/index.ts), with the *)
(* worktree manager, the configuration collector and the container manager *)
(* it drives.  Every awaited call of createSandbox is one action; an       *)
(* external tool that can fail is a nondeterministic choice of the action. *)
(***************************************************************************)
EXTENDS Integers, Sequences, FiniteSets, TLC

VARIABLES
  flags,        \* what the user passed: [noWorktree, worktreePath, preserve]
  host,         \* host facts that the session only reads
  projectDir,   \* the project root on disk: "missing", "plain", "repo"
  image,        \* the runtime's claude-sandbox:latest image
  pc,           \* position in program.action / createSandbox
  options,      \* SandboxOptions handed to createSandbox
  worktreeDir,  \* cli.ts: let worktreeDir
  worktrees,    \* worktrees (with their branch) that exist on disk
  configs,      \* cli.ts: const { configs } = await collectAllConfigs()
  staged,       \* /tmp staging paths written by createSandboxContainer
  container,    \* [state, binds, env] of the session's container
  sandboxCommands, \* sandboxConfig.commands as loaded, <<>> when none
  execLog,      \* commands run with docker exec, in order
  execResult,   \* what executeCommands returned
  gitCmds,      \* git commands invoked, in order
  child,        \* the interactive docker exec process
  calls,        \* steps of createSandbox invoked, in order
  completed,    \* steps that returned without raising
  phases,       \* session states reached
  builds,       \* number of docker build invocations
  errorLines,   \* logger.error lines emitted by the catch of createSandbox
  error,        \* the error the catch of createSandbox received, "" when none
  exitCode,     \* "running" until the process ends: "0", or "1" at process.exit(1)
  ensures,      \* one record per buildBaseImage call, in order
  wait,         \* the readiness wait of attachTerminal (waitForInitCompletion)
  startup,      \* the container's own startup: the entrypoint and its output
  cmdStatus,    \* how the docker exec of each command of a list ends
  capture,      \* environment snapshots and capture file of the setup script
  commit,       \* what commitChanges observed of git and of the strategy
  attach,       \* attachTerminal: overrides passed, child status, value returned
  envFile,      \* the persisted capture file <currentEnvPath>/.sandbox-env
  configTree,   \* the directory tree under ~/.claude
  bundle,       \* keys of the collection collectAllConfigs returned
  creations,    \* one record per GitWorktreeManager.create call, in order
  sessions,     \* concurrently running createSandbox processes
  accesses,     \* external resources those processes read-modified or wrote
  containerConfig, \* the SandboxConfig passed to createSandboxContainer
  settingsBuffer,  \* the bytes of ~/.claude/settings.json as collected
  extracted,    \* what getEnvVars returned for them
  transformed,  \* what transformSettings returned for them
  projectSettings, \* the file .claude-sandbox/settings.json of the project
  sandboxConfig, \* what loadConfig returned for it
  script        \* the statements the container's startup has executed

vars == << flags, host, projectDir, image, pc, options, worktreeDir, worktrees,
           configs, staged, container, sandboxCommands, execLog, execResult,
           gitCmds, child, calls, completed, phases, builds, errorLines, error,
           exitCode, ensures, wait, startup, cmdStatus, capture, commit,
           attach, envFile, configTree, script, bundle, creations, sessions, accesses,
           containerConfig, settingsBuffer, extracted, transformed,
           projectSettings, sandboxConfig, script >>

\* the inputs and results of the calls modelled on their own
units == << containerConfig, settingsBuffer, extracted, transformed,
           projectSettings, sandboxConfig >>

\* ---------------------------------------------------------------- bounds
MaxCommands == 2
MaxInstant == 2
MaxLines == 2
MaxDepth == 2
MaxCreations == 2
MaxItems == 2

Undefined == "undefined"

\* ------------------------------------------------------- pure operators

\* prompts.ts: what promptForMissingOptions returns for worktree; the
\* command line parser always defines options.worktree (true unless
\* --no-worktree), so no branch replaces it.
PromptedWorktree(noWorktree) == ~noWorktree

\* index.ts:38-39  worktree: finalOptions.worktree || true
\*                 preserveContainer: finalOptions.preserveContainer || false
\* variant of SandboxOptions that drops the user's --preserve-container
SandboxOptionsIgnorePreserve(f) ==
  [ worktree |-> (PromptedWorktree(f.noWorktree) \/ TRUE),
    worktreePath |-> f.worktreePath,
    preserveContainer |-> FALSE ]
SandboxOptions(f) ==
  [ worktree |-> (PromptedWorktree(f.noWorktree) \/ TRUE),
    worktreePath |-> f.worktreePath,
    preserveContainer |-> (f.preserve \/ FALSE) ]

\* cli.ts:83-102  the checks of validateEnvironment, in order
ValidationErrors(h) ==
  (IF h.dockerUp THEN <<>> ELSE << "Docker is not running or not installed" >>)
  \o (IF "settings.json" \in h.claudeFiles /\ h.claudeHome THEN <<>>
      ELSE << "Claude Code settings not found" >>)
  \o (IF h.gitInstalled THEN <<>> ELSE << "Git is not installed" >>)

\* worktree-manager.ts:106-109  isGitRepository: the project root has .git
\* (IsGitRepositoryAlways: the variant without the check)
IsGitRepositoryAlways(dir) == TRUE
IsGitRepository(dir) == dir = "repo"

\* worktree-manager.ts:16-31  the absolute path of the new worktree
WorktreePath(customPath) ==
  IF customPath # Undefined THEN "custom-ts" ELSE "project-sandbox-ts"

\* claude-config.ts:17-51 returns the collection itself; cli.ts:34 reads its
\* property "configs": the content of a top-level regular file of that name,
\* undefined when ~/.claude has no such file.
DestructuredConfigs(h) ==
  [ defined |-> ("configs" \in h.claudeFiles), bytes |-> h.configsBytes ]

\* cli.ts:45  projectPath: worktreeDir || resolvedPath
\* (MountedProjectPathWrong: the variant that always mounts the project root)
MountedProjectPathWrong(wt) == "projectRoot"
MountedProjectPath(wt) == IF wt # Undefined THEN wt ELSE "projectRoot"

\* container-manager.ts:44-111  binds and environment of the container
\* (ContainerSpecBare: the variant that never sets INIT_SCRIPT)
ContainerSpecBare(projectPath, claudeJson, envVars, preCommands) ==
  [ binds |->
      << [src |-> projectPath, dst |-> "/workspace", mode |-> "rw"],
         [src |-> "tempConfigDir", dst |-> "/home/claude/.claude", mode |-> "rw"] >>
      \o (IF claudeJson # Undefined
          THEN << [src |-> "claudeJsonTemp", dst |-> "/home/claude/.claude.json", mode |-> "rw"] >>
          ELSE <<>>)
      \o (IF Len(preCommands) > 0
          THEN << [src |-> "initScript", dst |-> "/home/claude/init.sh", mode |-> "ro"],
                  [src |-> "currentEnvPath", dst |-> "/home/claude/.sandbox-env.d", mode |-> "rw"] >>
          ELSE <<>>),
    env |->
      << "WORKSPACE_PATH=/workspace", "CLAUDE_CONFIG_PATH=/home/claude/.claude" >>
      \o envVars ]
ContainerSpec(projectPath, claudeJson, envVars, preCommands) ==
  [ binds |->
      << [src |-> projectPath, dst |-> "/workspace", mode |-> "rw"],
         [src |-> "tempConfigDir", dst |-> "/home/claude/.claude", mode |-> "rw"] >>
      \o (IF claudeJson # Undefined
          THEN << [src |-> "claudeJsonTemp", dst |-> "/home/claude/.claude.json", mode |-> "rw"] >>
          ELSE <<>>)
      \o (IF Len(preCommands) > 0
          THEN << [src |-> "initScript", dst |-> "/home/claude/init.sh", mode |-> "ro"],
                  [src |-> "currentEnvPath", dst |-> "/home/claude/.sandbox-env.d", mode |-> "rw"] >>
          ELSE <<>>),
    env |->
      << "WORKSPACE_PATH=/workspace", "CLAUDE_CONFIG_PATH=/home/claude/.claude" >>
      \o envVars
      \o (IF Len(preCommands) > 0
          THEN << "INIT_SCRIPT=/home/claude/init.sh" >> ELSE <<>>) ]

\* cli.ts:43-50  createSandbox passes no preCommands to createSandboxContainer
\* (config.preCommands is undefined there; <<>> stands for it, both are falsy
\* in the test of container-manager.ts:65)
PassedPreCommands(cmds) == <<>>

\* cli.ts:37-39  configs is a Buffer when it is defined, and a Buffer has no
\* property "settings.json": the environment list is always empty
SessionEnvVars(cfg) == <<>>

\* cli.ts:34  claudeJson is the property of that name of the collection, which
\* claude-config.ts never sets
SessionClaudeJson(h) == Undefined

\* container-manager.ts:298-302  the image creation instant the comparison
\* uses.  Instants 1..MaxInstant are real points in time in seconds; a string
\* Created is ISO-8601 and parseInt stops at the first "-", giving the year,
\* which as seconds since the epoch lies before every real instant: 0.
ImageCreated(h, img) == IF h.createdIsNumber THEN img.created ELSE 0

\* container-manager.ts:306  rebuild if the entrypoint is newer than the image
EntrypointNewer(h, img) == h.entrypointMtime > ImageCreated(h, img)

\* container-manager.ts:292-325  buildBaseImage; firstOk and secondOk are the
\* outcomes of the first and the second docker build it may invoke.  A build
\* creates the image now, which is no earlier than any file's modification.
BuildBaseImage(h, img, firstOk, secondOk) ==
  LET built == [exists |-> TRUE,
                created |-> IF h.entrypointMtime > MaxInstant
                            THEN h.entrypointMtime ELSE MaxInstant] IN
  IF img.exists /\ ~EntrypointNewer(h, img)
    THEN [image |-> img, builds |-> 0, raised |-> FALSE]
  ELSE IF img.exists
    THEN IF firstOk THEN [image |-> built, builds |-> 1, raised |-> FALSE]
         ELSE IF secondOk THEN [image |-> built, builds |-> 2, raised |-> FALSE]
         ELSE [image |-> img, builds |-> 2, raised |-> TRUE]
  ELSE IF firstOk THEN [image |-> built, builds |-> 1, raised |-> FALSE]
       ELSE [image |-> img, builds |-> 1, raised |-> TRUE]

\* what one buildBaseImage call did: the docker builds it invoked, how many
\* of them failed, whether it raised, the error lines it logged itself
\* (container-manager.ts:321, before it rethrows), and the entrypoint's
\* modification instant it compared with
EnsureRecord(h, r) ==
  [ builds |-> r.builds,
    failed |-> IF r.raised THEN r.builds
               ELSE IF r.builds = 0 THEN 0 ELSE r.builds - 1,
    raised |-> r.raised,
    errorLines |-> IF r.raised THEN 1 ELSE 0,
    mtime |-> h.entrypointMtime ]

\* sandbox-config.ts:22-60 with cli.ts:56  the commands createSandbox runs
LoadedCommands(h) == h.projectCommands

\* container-manager.ts:252-276  executeCommands; failAt is the position of the
\* first command whose docker exec fails, 0 when none does
ExecuteCommands(commands, failAt) ==
  IF failAt = 0
    THEN [ran |-> commands, failed |-> FALSE, command |-> ""]
    ELSE [ran |-> SubSeq(commands, 1, failAt), failed |-> TRUE,
          command |-> commands[failAt]]

\* container-manager.ts:263-272  what executeCommands returns for a command
\* whose docker exec threw: exitCode is error.status || 1, output is
\* error.stdout || error.stderr || ''
ExitStatus(end) == IF end = "exit2" THEN 2 ELSE IF end = "exit1" THEN 1 ELSE 0

FailureDetails(command, st) ==
  [ isNull |-> FALSE, command |-> command,
    exitCode |-> IF ExitStatus(st.end) # 0 THEN ExitStatus(st.end) ELSE 1,
    output |-> IF st.stdout # "" THEN st.stdout
               ELSE IF st.stderr # "" THEN st.stderr ELSE "" ]

NullResult == [ isNull |-> TRUE, command |-> "", exitCode |-> 0, output |-> "" ]

\* container-manager.ts:252-276  the loop of executeCommands from command k
\* on: the commands it runs and what it returns
\* (ExecuteCommandsLoopContinue: the variant that goes on after a failure
\* and returns the last one)
RECURSIVE ExecuteCommandsLoopContinue(_, _, _)
ExecuteCommandsLoopContinue(commands, status, k) ==
  IF k > Len(commands) THEN [ ran |-> <<>>, result |-> NullResult ]
  ELSE LET rest == ExecuteCommandsLoopContinue(commands, status, k + 1) IN
       [ ran |-> << commands[k] >> \o rest.ran,
         result |-> IF ~rest.result.isNull \/ status[k].end = "ok"
                    THEN rest.result
                    ELSE FailureDetails(commands[k], status[k]) ]
RECURSIVE ExecuteCommandsLoop(_, _, _)
ExecuteCommandsLoop(commands, status, k) ==
  IF k > Len(commands) THEN [ ran |-> <<>>, result |-> NullResult ]
  ELSE IF status[k].end # "ok"
    THEN [ ran |-> << commands[k] >>,
           result |-> FailureDetails(commands[k], status[k]) ]
  ELSE LET rest == ExecuteCommandsLoop(commands, status, k + 1) IN
       [ ran |-> << commands[k] >> \o rest.ran, result |-> rest.result ]

\* container-manager.ts:72, 80  a line of a snapshot written by env, KEY=VALUE;
\* EnvLines lists the lines the snapshots are drawn from in the byte order
\* sort puts them in
EnvLine(key, value) == [ key |-> key, value |-> value ]

EnvLines ==
  << EnvLine("FOO", "1"), EnvLine("FOO", "2"), EnvLine("PIPESTATUS", "0"),
     EnvLine("PWD", "/workspace"), EnvLine("PWDX", "1"), EnvLine("SHLVL", "1"),
     EnvLine("_", "/usr/bin/env") >>

LineRank(line) == CHOOSE r \in 1..Len(EnvLines) : EnvLines[r] = line

\* container-manager.ts:83  sort: the lines in order, repeated lines kept
RECURSIVE InsertSorted(_, _)
InsertSorted(line, sorted) ==
  IF sorted = <<>> THEN << line >>
  ELSE IF LineRank(line) <= LineRank(Head(sorted)) THEN << line >> \o sorted
  ELSE << Head(sorted) >> \o InsertSorted(line, Tail(sorted))

RECURSIVE Sort(_)
Sort(lines) ==
  IF lines = <<>> THEN <<>> ELSE InsertSorted(Head(lines), Sort(Tail(lines)))

\* container-manager.ts:83  comm -13 of two sorted files: the merge that
\* prints only the lines unique to the second file
\* (Comm23: the variant that prints the lines unique to the first file)
RECURSIVE Comm23(_, _)
Comm23(first, second) ==
  IF first = <<>> THEN <<>>
  ELSE IF second = <<>> THEN first
  ELSE IF LineRank(Head(first)) < LineRank(Head(second))
    THEN << Head(first) >> \o Comm23(Tail(first), second)
  ELSE IF LineRank(Head(first)) = LineRank(Head(second))
    THEN Comm23(Tail(first), Tail(second))
  ELSE Comm23(first, Tail(second))
RECURSIVE Comm13(_, _)
Comm13(first, second) ==
  IF second = <<>> THEN <<>>
  ELSE IF first = <<>> THEN second
  ELSE IF LineRank(Head(first)) < LineRank(Head(second))
    THEN Comm13(Tail(first), second)
  ELSE IF LineRank(Head(first)) = LineRank(Head(second))
    THEN Comm13(Tail(first), Tail(second))
  ELSE << Head(second) >> \o Comm13(first, Tail(second))

\* container-manager.ts:87  grep -v '^KEY=': the lines that do not begin
\* with KEY=
GrepV(lines, key) ==
  LET Keep(line) == line.key # key IN SelectSeq(lines, Keep)

\* container-manager.ts:87  the keys of the four grep -v filters
Denylist == << "_", "PWD", "SHLVL", "PIPESTATUS" >>

RECURSIVE Filtered(_, _)
Filtered(lines, k) ==
  IF k > Len(Denylist) THEN lines ELSE Filtered(GrepV(lines, Denylist[k]), k + 1)

\* container-manager.ts:90  echo "" appends an empty line
EmptyLine == EnvLine("", "")

\* container-manager.ts:83-90  ~/.sandbox-env as the setup script writes it
\* from the two snapshots
SandboxEnvFile(before, after) ==
  Filtered(Comm13(Sort(before), Sort(after)), 1) \o << EmptyLine >>

\* a JSON value as JSON.parse gives it: its type, the text of a string or
\* number, and the entries of an array (keys "") or of an object, in order
JValue(t, s, items) == [ t |-> t, s |-> s, items |-> items ]

JNull == JValue("null", "", <<>>)

JStr(s) == JValue("str", s, <<>>)

JNum(s) == JValue("num", s, <<>>)

JEntry(key, value) == [ key |-> key, value |-> value ]

JArr(values) ==
  JValue("arr", "", [ i \in 1..Len(values) |-> JEntry("", values[i]) ])

JObj(entries) == JValue("obj", "", entries)

\* a Buffer read from a file: whether JSON.parse accepts its text, the value
\* it parses to, and whether the text is the two-space layout of
\* JSON.stringify(value, null, 2)
Buffer(valid, doc, pretty) ==
  [ defined |-> TRUE, valid |-> valid, doc |-> doc, pretty |-> pretty ]

NoBuffer == [ defined |-> FALSE, valid |-> FALSE, doc |-> JNull, pretty |-> FALSE ]

\* the value of a property that is not there
JUndefined == JValue("undefined", "", <<>>)

\* value.key as JavaScript evaluates it on a parsed value that is not null:
\* the entry of an object, undefined on anything else
Member(value, key) ==
  IF value.t = "obj" /\ \E i \in 1..Len(value.items) : value.items[i].key = key
    THEN value.items[CHOOSE i \in 1..Len(value.items) :
                       value.items[i].key = key].value
    ELSE JUndefined

\* what an if or an || takes for true
Truthy(value) ==
  /\ value.t \notin { "undefined", "null" }
  /\ ~(value.t = "str" /\ value.s = "")
  /\ ~(value.t = "num" /\ value.s = "0")

\* the characters of the strings the documents use
Chars(s) == IF s = "ab" THEN << "a", "b" >> ELSE IF s = "" THEN <<>> ELSE << s >>

\* claude-config.ts:121  Object.entries: the entries of an object, the
\* elements of an array and the characters of a string under their
\* indices, nothing for a number
ObjectEntries(value) ==
  IF value.t = "obj" THEN value.items
  ELSE IF value.t = "arr"
    THEN [ i \in 1..Len(value.items) |->
             JEntry(ToString(i - 1), value.items[i].value) ]
  ELSE IF value.t = "str"
    THEN [ i \in 1..Len(Chars(value.s)) |->
             JEntry(ToString(i - 1), JStr(Chars(value.s)[i])) ]
  ELSE <<>>

\* claude-config.ts:121  `${value}`: the text of a value in a template
RECURSIVE JoinTexts(_)
TemplateText(value) ==
  IF value.t \in { "str", "num" } THEN value.s
  ELSE IF value.t = "obj" THEN "[object Object]"
  ELSE IF value.t = "arr"
    THEN JoinTexts([ i \in 1..Len(value.items) |->
                       IF value.items[i].value.t \in { "str", "num" }
                         THEN value.items[i].value.s ELSE "" ])
  ELSE value.t

JoinTexts(texts) ==
  IF texts = <<>> THEN ""
  ELSE IF Len(texts) = 1 THEN texts[1]
  ELSE texts[1] \o "," \o JoinTexts(Tail(texts))

\* claude-config.ts:118-125  getEnvVars(settingsBuffer): JSON.parse raising
\* and settings.env raising on null both land in the catch, which returns []
GetEnvVars(buffer) ==
  IF ~buffer.valid \/ buffer.doc.t = "null" THEN <<>>
  ELSE LET env == Member(buffer.doc, "env")
           entries == IF Truthy(env) THEN ObjectEntries(env) ELSE <<>> IN
       [ i \in 1..Len(entries) |->
           entries[i].key \o "=" \o TemplateText(entries[i].value) ]

\* the marker of a TypeError raised while a value was computed
JTypeError == JValue("TypeError", "", <<>>)

\* claude-config.ts:99  command.includes(needle): a substring of a string,
\* an element of an array
Includes(command, needle) ==
  IF command.t = "str"
    THEN \/ needle = "afplay" /\ command.s \in { "afplay", "afplay ding.aiff" }
         \/ needle = "osascript" /\ command.s = "osascript -e beep"
  ELSE \E i \in 1..Len(command.items) : command.items[i].value = JStr(needle)

\* claude-config.ts:97-101  the entries filterCommands drops
MacOnly(command) == Includes(command, "afplay") \/ Includes(command, "osascript")

\* claude-config.ts:93-113  filterCommands: arrays are mapped element by
\* element, an object whose command is macOS-only becomes null, and the
\* entries of any other object are kept unless their filtered value is
\* null; a truthy command without includes raises a TypeError
RECURSIVE FilterCommands(_)
FilterCommands(obj) ==
  IF obj.t = "arr"
    THEN LET results == [ i \in 1..Len(obj.items) |->
                            FilterCommands(obj.items[i].value) ] IN
         IF \E i \in 1..Len(results) : results[i] = JTypeError
           THEN JTypeError ELSE JArr(results)
  ELSE IF obj.t = "obj"
    THEN LET command == Member(obj, "command") IN
         IF Truthy(command) /\ command.t \notin { "str", "arr" }
           THEN JTypeError
         ELSE IF Truthy(command) /\ MacOnly(command) THEN JNull
         ELSE LET results == [ i \in 1..Len(obj.items) |->
                                 JEntry(obj.items[i].key,
                                        FilterCommands(obj.items[i].value)) ]
                  filtered(entry) == entry.value # JNull IN
              IF \E i \in 1..Len(results) : results[i].value = JTypeError
                THEN JTypeError ELSE JObj(SelectSeq(results, filtered))
  ELSE obj

\* claude-config.ts:88-116  filterHooksForLinux: filterCommands on a copy
FilterHooksForLinux(hooks) == FilterCommands(hooks)

\* claude-config.ts:77-78  settings.hooks = ...: the value of an existing
\* property is replaced in place
WithMember(value, key, new) ==
  JObj([ i \in 1..Len(value.items) |->
           IF value.items[i].key = key THEN JEntry(key, new)
           ELSE value.items[i] ])

\* claude-config.ts:72-86  transformSettings(settingsBuffer): any error, of
\* JSON.parse, of settings.hooks on null or of the filter, lands in the
\* catch, which returns the buffer it was given
TransformSettings(buffer) ==
  IF ~buffer.valid \/ buffer.doc.t = "null" THEN buffer
  ELSE LET hooks == Member(buffer.doc, "hooks") IN
       IF ~Truthy(hooks) THEN Buffer(TRUE, buffer.doc, TRUE)
       ELSE IF FilterHooksForLinux(hooks) = JTypeError THEN buffer
       ELSE Buffer(TRUE, WithMember(buffer.doc, "hooks",
                                    FilterHooksForLinux(hooks)), TRUE)

\* container-manager.ts:6-14  SandboxConfig, no call made yet
NoConfig ==
  [ projectPath |-> "", claudeJson |-> Undefined, envVars |-> <<>>,
    preCommands |-> <<>> ]

\* sandbox-config.ts:22-60  loadConfig not called
NullConfig ==
  [ called |-> FALSE, null |-> TRUE, defined |-> FALSE, commands |-> <<>>,
    raised |-> FALSE ]

\* worktree-manager.ts:17-28  paths as path.join, path.resolve and
\* path.basename see them: absolute or not, and a sequence of segments. A
\* segment is a name, followed by "-sandbox" when sandbox is set, followed by
\* "-<ts>" when ts is not 0.
Segment(name, sandbox, ts) == [ name |-> name, sandbox |-> sandbox, ts |-> ts ]

Plain(name) == Segment(name, FALSE, 0)

Path(abs, segs) == [ abs |-> abs, segs |-> segs ]

\* worktree-manager.ts:10, 17  customPath undefined or '': both falsy
NoPath == Path(FALSE, <<>>)

\* worktree-manager.ts:18  path.dirname; 19, 28  path.basename
Dirname(p) == Path(p.abs, SubSeq(p.segs, 1, Len(p.segs) - 1))

Basename(p) == IF p.segs = <<>> THEN Plain("") ELSE p.segs[Len(p.segs)]

\* worktree-manager.ts:19  `${path.basename(this.projectPath)}-sandbox`
WithSandbox(seg) == [ seg EXCEPT !.sandbox = TRUE ]

\* worktree-manager.ts:17-20  path.join(dir, name)
Join(dir, seg) == Path(dir.abs, Append(dir.segs, seg))

\* worktree-manager.ts:22  `${worktreeBase}-${timestamp}`: the text is
\* appended to the last segment of the base
WithTimestamp(p, timestamp) ==
  IF p.segs = <<>> THEN Path(p.abs, << Segment("", FALSE, timestamp) >>)
  ELSE Path(p.abs, [ p.segs EXCEPT ![Len(p.segs)].ts = timestamp ])

\* worktree-manager.ts:25  path.resolve: relative paths start at the current
\* directory of the process, "." and empty segments are dropped and ".."
\* drops the segment before it
RECURSIVE Normalize(_, _)
Normalize(done, rest) ==
  IF rest = <<>> THEN done
  ELSE IF Head(rest) \in { Plain("."), Plain("") }
    THEN Normalize(done, Tail(rest))
  ELSE IF Head(rest) = Plain("..")
    THEN Normalize(SubSeq(done, 1, Len(done) - 1), Tail(rest))
  ELSE Normalize(Append(done, Head(rest)), Tail(rest))

Resolve(cwd, p) ==
  Path(TRUE, Normalize(<<>>, IF p.abs THEN p.segs ELSE cwd.segs \o p.segs))

\* worktree-manager.ts:17-25  absoluteWorktreePath
AbsoluteWorktreePath(projectPath, customPath, cwd, timestamp) ==
  LET worktreeBase ==
        IF customPath # NoPath THEN customPath
        ELSE Join(Dirname(projectPath), WithSandbox(Basename(projectPath)))
  IN Resolve(cwd, WithTimestamp(worktreeBase, timestamp))

\* worktree-manager.ts:28-31  sandboxBranch = `branch-${dirName}`
\* (SandboxBranchOfParent: the variant that names the branch after the
\* directory holding the worktree)
SandboxBranchOfParent(absoluteWorktreePath) ==
  [ prefix |-> "branch-", dirName |-> Basename(Dirname(absoluteWorktreePath)) ]
SandboxBranch(absoluteWorktreePath) ==
  [ prefix |-> "branch-", dirName |-> Basename(absoluteWorktreePath) ]

NoBranch == [ prefix |-> "", dirName |-> Plain("") ]

\* container-manager.ts:28  imageName, the same for every session
ImageTag == << "claude-sandbox:latest" >>

\* container-manager.ts:32, 49, 63, 97  the staging paths of a session under
\* /tmp: "claude-sandbox-", the session name and a suffix, as the sequence
\* of their "-"-separated parts
\* (StagingPathShared: the variant that leaves the name out)
StagingPathShared(name, suffix) == << "claude-sandbox" >> \o suffix
StagingPath(name, suffix) == << "claude-sandbox" >> \o name \o suffix

TempConfigDir(name) == StagingPath(name, << "config" >>)

ClaudeJsonTempPath(name) == StagingPath(name, << "claude.json" >>)

InitScriptPath(name) == StagingPath(name, << "init.sh" >>)

CurrentEnvPath(name) == StagingPath(name, << "env" >>)

\* an access of a session to a resource outside the process
Access(kind, id, by, mode) ==
  [ resource |-> [ kind |-> kind, id |-> id ], by |-> by, mode |-> mode ]

\* claude-config.ts:27, 55  an entry of readdir(..., { withFileTypes: true }):
\* its kind is that of the entry itself ("file", "dir", "symlink"; "absent"
\* when the directory has no entry of that name), entries the listing of a
\* directory
ConfigNames == { "settings.json", "commands" }

Entry(kind, entries) == [ kind |-> kind, entries |-> entries ]

EmptyListing == [ n \in ConfigNames |-> Entry("absent", <<>>) ]

\* claude-config.ts:32, 61  entry.isFile(); 35, 63  entry.isDirectory()
\* (EntryIsFileFollowing: the variant that takes a link for its target)
EntryIsFileFollowing(entry) == entry.kind \in { "file", "symlink" }
EntryIsFile(entry) == entry.kind = "file"

EntryIsDirectory(entry) == entry.kind = "dir"

\* claude-config.ts:29-40, 53-70  the keys collected from a listing under a
\* prefix: path.join(prefix, entry.name) for a file, the keys of the
\* recursive call for a directory, nothing for any other entry
RECURSIVE CollectDirectory(_, _)
CollectDirectory(listing, prefix) ==
  UNION { IF EntryIsFile(listing[n]) THEN { Append(prefix, n) }
          ELSE IF EntryIsDirectory(listing[n])
            THEN CollectDirectory(listing[n].entries, Append(prefix, n))
          ELSE {} : n \in ConfigNames }

\* container-manager.ts:165-178  a line of the capture file as attachTerminal
\* reads it: blank (nothing but white space), hash (begins with '#'), and,
\* when it has an '=', the text before the first '=' as its fragments and
\* the text after it
FileLine(blank, hash, hasEq, key, value) ==
  [ blank |-> blank, hash |-> hash, hasEq |-> hasEq, key |-> key, value |-> value ]

\* container-manager.ts:174  key.includes('PATH') || key.includes('INSTALL')
\* || key.includes('HOME')
\* (AllowedKeyAny: the variant that passes every key)
AllowedKeyAny(key) == TRUE
AllowedKey(key) ==
  \E k \in 1..Len(key) : key[k] \in { "PATH", "INSTALL", "HOME" }

\* container-manager.ts:166-179  the --env overrides parsed from the lines
RECURSIVE ParsedOverrides(_)
ParsedOverrides(lines) ==
  IF lines = <<>> THEN <<>>
  ELSE LET line == Head(lines)
           kept == ~line.blank /\ ~line.hash
           eqIndexPositive == line.hasEq /\ Len(line.key) > 0 IN
       (IF kept /\ eqIndexPositive /\ AllowedKey(line.key)
          THEN << [ key |-> line.key, value |-> line.value ] >> ELSE <<>>)
       \o ParsedOverrides(Tail(lines))

\* container-manager.ts:161-186  the overrides attachTerminal passes: none
\* when currentEnvPath is unset, the file is absent or reading it throws
EnvOverrides(envPathSet, file) ==
  IF envPathSet /\ file.exists /\ file.readable
    THEN ParsedOverrides(file.lines) ELSE <<>>

\* container-manager.ts:194-199  what attachTerminal resolves with when the
\* child has exited with the given status: resolve() carries no value
AttachReturn(status) == "undefined"

\* worktree-manager.ts:53-88  what commitChanges got to see: the status
\* query, the strategy's result when it was invoked, git add and git commit
\* when they ran
CommitObserved(status, strategy, addOk, commitOk) ==
  [ status |-> status,
    strategy |-> IF status = "dirty" THEN strategy ELSE "",
    add |-> IF status = "dirty" /\ strategy = "fallback"
            THEN (IF addOk THEN "ok" ELSE "fails") ELSE "",
    commit |-> IF status = "dirty" /\ strategy = "fallback" /\ addOk
               THEN (IF commitOk THEN "ok" ELSE "fails") ELSE "" ]

\* container-manager.ts:204, 241, 214  waitForInitCompletion: the maximum
\* wait, the sleep between two polls and the timeout of one log retrieval, ms
MaxWaitTime == 120000
PollInterval == 2000
LogTimeout == 5000

\* a line of container output; i and n number the progress lines
Line(text) == [ text |-> text, i |-> 0, n |-> 0 ]

\* container-manager.ts:217-218  the two strings the poll searches the logs for
Sentinels ==
  { "[ENTRYPOINT] Created completion marker",
    "[ENTRYPOINT] No pre-configuration commands to run" }

HasSentinel(lines) ==
  \E k \in 1..Len(lines) : lines[k].text \in Sentinels

\* container-manager.ts:224  the error pattern, which only logs a warning
HasErrorPattern(lines) ==
  \E k \in 1..Len(lines) : lines[k].text = "error: command failed"

\* container-manager.ts:209-242  one iteration of the poll loop: what it
\* does with the outcome of docker logs ("ok", "fails", "timesOut") and the
\* lines it got.  Only a sentinel ends the loop.
\* (PollOutcomeStrict: the variant that gives up on an error or a failed
\* retrieval)
PollOutcomeStrict(retrieval, lines) ==
  IF retrieval = "ok" /\ HasSentinel(lines) THEN "return"
  ELSE IF retrieval # "ok" \/ HasErrorPattern(lines) THEN "raise"
  ELSE "sleep"
PollOutcome(retrieval, lines) ==
  IF retrieval = "ok" /\ HasSentinel(lines) THEN "return" ELSE "sleep"

\* container-manager.ts:212-215, 241  the time one iteration that does not
\* return takes: the retrieval (its whole timeout when it times out) and
\* the sleep
IterationTime(retrieval) ==
  PollInterval + (IF retrieval = "timesOut" THEN LogTimeout ELSE 0)

\* how a command ends (exit status 0, a non-zero exit status, or a signal)
\* and whether it wrote to its output streams
Outcomes ==
  [ end : { "ok", "exit1", "exit2", "signal" }, stdout : { "", "out" },
    stderr : { "", "err" } ]

\* container-manager.ts:69-98  the output of the generated setup script for
\* the declared commands: set -e ends it at the first command that fails
\* (which is taken to print an error line)
RECURSIVE InitScriptLines(_, _, _)
InitScriptLines(commands, status, k) ==
  IF k > Len(commands)
    THEN << Line("[INIT SCRIPT] Environment captured to ~/.sandbox-env"),
            Line("[INIT SCRIPT] All commands completed") >>
  ELSE << [ text |-> "[INIT SCRIPT] Running", i |-> k, n |-> Len(commands) ] >>
       \o (IF status[k].end = "ok"
           THEN InitScriptLines(commands, status, k + 1)
           ELSE << Line("error: command failed") >>)

InitScriptOk(commands, status) ==
  \A k \in 1..Len(commands) : status[k].end = "ok"

\* the entrypoint of the image: docker/entrypoint.sh, or the entrypoint with
\* the INIT_SCRIPT branch (unnamed/part_001).  initScript: INIT_SCRIPT is in
\* the environment; scriptFile: a regular file is at that path.
\* part_001:59  [ -n "$INIT_SCRIPT" ]
HasInitScript(env) ==
  \E k \in 1..Len(env) : env[k] = "INIT_SCRIPT=/home/claude/init.sh"

EntrypointVersions == { "docker/entrypoint.sh", "part_001" }

EntrypointRun(version, initScript, scriptFile, commands, status) ==
  IF version = "docker/entrypoint.sh"
    THEN [ lines |-> << Line("Claude Code Sandbox Environment") >>,
           marker |-> FALSE, execed |-> TRUE ]
  ELSE
    LET pre == << Line("[ENTRYPOINT] Added sandbox env sourcing to ~/.bashrc"),
                  Line("[ENTRYPOINT] Added sandbox env sourcing to ~/.profile"),
                  Line("Claude Code Sandbox Environment") >> IN
    IF ~initScript
      THEN [ lines |-> pre \o
               << Line("[ENTRYPOINT] No pre-configuration commands to run") >>,
             marker |-> TRUE, execed |-> TRUE ]
    ELSE IF ~scriptFile
      THEN [ lines |-> pre \o
               << Line("[ENTRYPOINT] Starting pre-configuration commands..."),
                  Line("[ENTRYPOINT] Warning: INIT_SCRIPT set but file not found") >>,
             marker |-> FALSE, execed |-> TRUE ]
    ELSE
      LET ok == InitScriptOk(commands, status) IN
      [ lines |-> pre \o
          << Line("[ENTRYPOINT] Starting pre-configuration commands..."),
             Line("[ENTRYPOINT] Executing init script") >>
          \o InitScriptLines(commands, status, 1)
          \o (IF ok
              THEN << Line("[ENTRYPOINT] All pre-configuration commands completed successfully"),
                      Line("[ENTRYPOINT] Created completion marker") >>
              ELSE <<>>),
        marker |-> ok, execed |-> ok ]

\* a statement the container's startup has executed: what it is, the number
\* of the setup command it belongs to, whether it succeeded, and the line it
\* wrote to the container output (Line("") when it wrote none)
Statement(op, i, ok, line) == [ op |-> op, i |-> i, ok |-> ok, line |-> line ]

Echo(line) == Statement("echo", line.i, TRUE, line)

Silent(op) == Statement(op, 0, TRUE, Line(""))

\* bash set -e (container-manager.ts:67, part_001:2): a statement that fails
\* ends the script
\* (StopsAtFailureNever: the script without set -e)
StopsAtFailureNever(ok) == FALSE
StopsAtFailure(ok) == ~ok

\* container-manager.ts:79-92  the statements of the generated script after
\* the last setup command; comm, grep and cp are followed by || true
\* (ScriptEpilogueEchoFirst: the variant that reports before it captures)
ScriptEpilogueEchoFirst(cpOk) ==
  << Echo(Line("[INIT SCRIPT] Environment captured to ~/.sandbox-env")),
     Echo(Line("[INIT SCRIPT] All commands completed")),
     Silent("env > sandbox-env-after.txt"),
     Silent("comm -13 > sandbox-env-diff.txt"),
     Silent("grep -v > ~/.sandbox-env"),
     Silent("echo >> ~/.sandbox-env"),
     Statement("cp ~/.sandbox-env .sandbox-env.d", 0, cpOk, Line("")) >>
ScriptEpilogue(cpOk) ==
  << Silent("env > sandbox-env-after.txt"),
     Silent("comm -13 > sandbox-env-diff.txt"),
     Silent("grep -v > ~/.sandbox-env"),
     Silent("echo >> ~/.sandbox-env"),
     Statement("cp ~/.sandbox-env .sandbox-env.d", 0, cpOk, Line("")),
     Echo(Line("[INIT SCRIPT] Environment captured to ~/.sandbox-env")),
     Echo(Line("[INIT SCRIPT] All commands completed")) >>

\* container-manager.ts:74-77  the progress line and the command, for each
\* declared command from the k-th on, then the epilogue
RECURSIVE ScriptCommands(_, _, _, _)
ScriptCommands(commands, status, k, cpOk) ==
  IF k > Len(commands) THEN ScriptEpilogue(cpOk)
  ELSE << Echo([ text |-> "[INIT SCRIPT] Running", i |-> k, n |-> Len(commands) ]),
          Statement("command", k, status[k].end = "ok",
                    IF status[k].end = "ok" THEN Line("")
                    ELSE Line("error: command failed")) >>
       \o (IF StopsAtFailure(status[k].end = "ok") THEN <<>>
           ELSE ScriptCommands(commands, status, k + 1, cpOk))

\* container-manager.ts:65-93  the statements the generated script executes
InitScriptStatements(commands, status, cpOk) ==
  << Silent("env > sandbox-env-before.txt") >>
  \o ScriptCommands(commands, status, 1, cpOk)

\* the statements the entrypoint executes (docker/entrypoint.sh:1-18,
\* part_001:1-80): those of EntrypointRun that write a line, the generated
\* script run by bash "$INIT_SCRIPT", the touch of the marker and the exec
EntrypointStatements(version, initScript, scriptFile, commands, status, cpOk) ==
  IF version = "docker/entrypoint.sh"
    THEN << Echo(Line("Claude Code Sandbox Environment")), Silent("exec") >>
  ELSE
    LET pre == << Echo(Line("[ENTRYPOINT] Added sandbox env sourcing to ~/.bashrc")),
                  Echo(Line("[ENTRYPOINT] Added sandbox env sourcing to ~/.profile")),
                  Echo(Line("Claude Code Sandbox Environment")) >> IN
    IF ~initScript
      THEN pre \o
           << Echo(Line("[ENTRYPOINT] No pre-configuration commands to run")),
              Silent("touch .init-complete"), Silent("exec") >>
    ELSE IF ~scriptFile
      THEN pre \o
           << Echo(Line("[ENTRYPOINT] Starting pre-configuration commands...")),
              Echo(Line("[ENTRYPOINT] Warning: INIT_SCRIPT set but file not found")),
              Silent("exec") >>
    ELSE
      pre \o
      << Echo(Line("[ENTRYPOINT] Starting pre-configuration commands...")),
         Echo(Line("[ENTRYPOINT] Executing init script")) >>
      \o InitScriptStatements(commands, status, cpOk)
      \o (IF \E k \in 1..Len(commands) : StopsAtFailure(status[k].end = "ok")
          THEN <<>>
          ELSE << Echo(Line("[ENTRYPOINT] All pre-configuration commands completed successfully")),
                  Silent("touch .init-complete"),
                  Echo(Line("[ENTRYPOINT] Created completion marker")),
                  Silent("exec") >>)

\* cli.ts:21-75  the order of the awaited steps of createSandbox (image
\* ensure, container create and container start are the awaited calls of
\* createSandboxContainer, container-manager.ts:30, 114, 131)
\* (PipelineCommitLast: the variant that tears down before committing;
\* PipelineRemoveFirst: the variant that removes before it stops)
PipelineRemoveFirst ==
  << "validateEnvironment", "worktreeCreate", "collectAllConfigs",
     "imageEnsure", "containerCreate", "containerStart", "executeCommands",
     "attachTerminal", "commitChanges", "removeContainer", "stopContainer" >>
PipelineCommitLast ==
  << "validateEnvironment", "worktreeCreate", "collectAllConfigs",
     "imageEnsure", "containerCreate", "containerStart", "executeCommands",
     "attachTerminal", "stopContainer", "removeContainer", "commitChanges" >>
Pipeline ==
  << "validateEnvironment", "worktreeCreate", "collectAllConfigs",
     "imageEnsure", "containerCreate", "containerStart", "executeCommands",
     "attachTerminal", "commitChanges", "stopContainer", "removeContainer" >>

PositionIn(seq, step) == CHOOSE i \in 1..Len(seq) : seq[i] = step

After(step) ==
  LET i == PositionIn(Pipeline, step) IN
  IF i = Len(Pipeline) THEN "sessionCompleted" ELSE Pipeline[i + 1]

\* ------------------------------------------------------------ initial state

Commands == UNION { [1..n -> {"cmd"}] : n \in 0..MaxCommands }

Flags == [ noWorktree : BOOLEAN, worktreePath : {Undefined, "custom"},
           preserve : BOOLEAN ]

Images ==
  { i \in [ exists : BOOLEAN, created : 1..MaxInstant ] :
      ~i.exists => i.created = 1 }

Hosts ==
  { h \in [ dockerUp : BOOLEAN, gitInstalled : BOOLEAN, claudeHome : BOOLEAN,
            claudeFiles : SUBSET {"settings.json", "configs"},
            configsBytes : 0..1, projectCommands : Commands, isTTY : BOOLEAN,
            entrypointMtime : 1..MaxInstant, createdIsNumber : BOOLEAN,
            imageAtStart : Images ] :
      /\ (~h.claudeHome => h.claudeFiles = {})
      /\ ("configs" \notin h.claudeFiles => h.configsBytes = 0) }

NoContainer == [ state |-> "none", binds |-> <<>>, env |-> <<>> ]

\* attachTerminal has not waited, the container's startup is not observed,
\* no command list and no setup script has run
NoWait ==
  [ state |-> "none", elapsed |-> 0, polls |-> 0, last |-> "", outcome |-> "" ]
NoStartup ==
  [ version |-> "", scriptFile |-> FALSE, commands |-> <<>>, lines |-> <<>>,
    emitted |-> 0, marker |-> FALSE, execed |-> FALSE ]
NoCapture == [ before |-> <<>>, after |-> <<>>, file |-> <<>> ]

\* commitChanges has not run; attachTerminal has not spawned or returned;
\* no capture file is on the host
NoCommit == [ status |-> "", strategy |-> "", add |-> "", commit |-> "" ]
NoAttach == [ overrides |-> <<>>, status |-> "", returned |-> "" ]
NoEnvFile == [ exists |-> FALSE, readable |-> FALSE, lines |-> <<>> ]

Init ==
  /\ flags \in Flags
  /\ host \in Hosts
  /\ projectDir \in {"missing", "plain", "repo"}
  /\ image = host.imageAtStart
  /\ pc = "cli"
  /\ options = [worktree |-> FALSE, worktreePath |-> Undefined,
                preserveContainer |-> FALSE]
  /\ worktreeDir = Undefined
  /\ worktrees = {}
  /\ configs = [defined |-> FALSE, bytes |-> 0]
  /\ staged = {}
  /\ container = NoContainer
  /\ sandboxCommands = <<>>
  /\ execLog = <<>>
  /\ execResult = [failed |-> FALSE, command |-> ""]
  /\ gitCmds = <<>>
  /\ child = "none"
  /\ calls = <<>>
  /\ completed = <<>>
  /\ phases = <<>>
  /\ builds = 0
  /\ errorLines = 0
  /\ error = ""
  /\ exitCode = "running"
  /\ ensures = <<>>
  /\ wait = NoWait
  /\ startup = NoStartup
  /\ cmdStatus = <<>>
  /\ capture = NoCapture
  /\ commit = NoCommit
  /\ attach = NoAttach
  /\ envFile = NoEnvFile
  /\ configTree = <<>>
  /\ script = <<>>
  /\ containerConfig = NoConfig
  /\ settingsBuffer = NoBuffer
  /\ extracted = <<>>
  /\ transformed = NoBuffer
  /\ projectSettings = NoBuffer
  /\ sandboxConfig = NullConfig
  /\ bundle = {}
  /\ creations = <<>>
  /\ sessions = <<>>
  /\ accesses = {}

\* ------------------------------------------------------------------ steps

\* cli.ts:76-79  the catch of createSandbox: one error line, process.exit(1);
\* nothing that exists is undone.  ph is the phase list at the throw.
\* (CatchHandlerTeardown and CatchHandlerCleanup: the variants that
\* compensate, removing the container or the worktree)
CatchHandlerTeardown(ph, err) ==
  /\ pc' = "failed"
  /\ error' = err
  /\ errorLines' = errorLines + 1
  /\ exitCode' = "1"
  /\ phases' = Append(ph, "Failed")
  /\ completed' = completed
  /\ worktrees' = worktrees
  /\ container' = IF container.state = "none" THEN container
                  ELSE [container EXCEPT !.state = "removed"]
CatchHandlerCleanup(ph, err) ==
  /\ pc' = "failed"
  /\ error' = err
  /\ errorLines' = errorLines + 1
  /\ exitCode' = "1"
  /\ phases' = Append(ph, "Failed")
  /\ completed' = completed
  /\ worktrees' = {}
  /\ container' = container
CatchHandler(ph, err) ==
  /\ pc' = "failed"
  /\ error' = err
  /\ errorLines' = errorLines + 1
  /\ exitCode' = "1"
  /\ phases' = Append(ph, "Failed")
  /\ completed' = completed
  /\ worktrees' = worktrees
  /\ container' = container

\* a step of the pipeline returns: the next statement of createSandbox runs
Return(step, ph) ==
  /\ pc' = After(step)
  /\ completed' = Append(completed, step)
  /\ phases' = ph
  /\ UNCHANGED << errorLines, error, exitCode >>

\* a step whose condition is false is passed over
Skip(step) ==
  /\ pc' = After(step)
  /\ UNCHANGED << completed, phases, errorLines, error, exitCode, calls >>

\* index.ts:19-42  program.action
ProgramAction ==
  /\ pc = "cli"
  /\ options' = SandboxOptions(flags)
  /\ pc' = Pipeline[1]
  /\ UNCHANGED << flags, host, projectDir, image, worktreeDir, worktrees,
                  configs, staged, container, sandboxCommands, execLog,
                  execResult, gitCmds, child, calls, completed, phases, builds,
                  errorLines, error, exitCode >>
  /\ UNCHANGED << ensures, wait, startup, cmdStatus, capture >>
  /\ UNCHANGED << commit, attach, envFile, configTree, script, units, bundle, creations,
                  sessions, accesses >>

\* cli.ts:82-115  validateEnvironment
ValidateEnvironment ==
  /\ pc = "validateEnvironment"
  /\ calls' = Append(calls, "validateEnvironment")
  /\ projectDir' = IF projectDir = "missing" THEN "plain" ELSE projectDir
  /\ IF Len(ValidationErrors(host)) > 0
       THEN CatchHandler(Append(phases, "Validating"), "Environment validation failed")
       ELSE /\ Return("validateEnvironment", Append(phases, "Validating"))
            /\ UNCHANGED << worktrees, container >>
  /\ UNCHANGED << flags, host, image, options, worktreeDir, configs, staged,
                  sandboxCommands, execLog, execResult, gitCmds, child, builds >>
  /\ UNCHANGED << ensures, wait, startup, cmdStatus, capture >>
  /\ UNCHANGED << commit, attach, envFile, configTree, script, units, bundle, creations,
                  sessions, accesses >>

\* cli.ts:25-30 with worktree-manager.ts:9-47  GitWorktreeManager.create
WorktreeCreate ==
  /\ pc = "worktreeCreate"
  /\ IF options.worktree
       THEN /\ calls' = Append(calls, "worktreeCreate")
            /\ IF ~IsGitRepository(projectDir)
                 THEN /\ CatchHandler(phases, "Project is not a git repository")
                      /\ UNCHANGED << gitCmds, worktreeDir >>
                 ELSE \E ok \in BOOLEAN :
                      /\ gitCmds' = Append(gitCmds, "worktree add")
                      /\ IF ok
                           THEN /\ worktreeDir' = WorktreePath(options.worktreePath)
                                /\ worktrees' = worktrees \cup {worktreeDir'}
                                /\ container' = container
                                /\ Return("worktreeCreate",
                                          Append(phases, "WorktreeReady"))
                           ELSE /\ CatchHandler(phases, "Failed to create git worktree")
                                /\ worktreeDir' = worktreeDir
       ELSE /\ Skip("worktreeCreate")
            /\ UNCHANGED << gitCmds, worktreeDir, worktrees, container >>
  /\ UNCHANGED << flags, host, projectDir, image, options, configs, staged,
                  sandboxCommands, execLog, execResult, child, builds >>
  /\ UNCHANGED << ensures, wait, startup, cmdStatus, capture >>
  /\ UNCHANGED << commit, attach, envFile, configTree, script, units, bundle, creations,
                  sessions, accesses >>

\* cli.ts:32-39 with claude-config.ts:17-51  collectAllConfigs and the
\* reading of configs['settings.json']
CollectAllConfigs ==
  /\ pc = "collectAllConfigs"
  /\ calls' = Append(calls, "collectAllConfigs")
  /\ IF ~host.claudeHome
       THEN /\ CatchHandler(phases, "Claude Code config directory not found")
            /\ configs' = configs
       ELSE /\ configs' = DestructuredConfigs(host)
            /\ IF ~configs'.defined
                 THEN CatchHandler(phases, "TypeError: configs is undefined")
                 ELSE /\ Return("collectAllConfigs", Append(phases, "ConfigReady"))
                      /\ UNCHANGED << worktrees, container >>
  /\ UNCHANGED << flags, host, projectDir, image, options, worktreeDir, staged,
                  sandboxCommands, execLog, execResult, gitCmds, child, builds >>
  /\ UNCHANGED << ensures, wait, startup, cmdStatus, capture >>
  /\ UNCHANGED << commit, attach, envFile, configTree, script, units, bundle, creations,
                  sessions, accesses >>

\* container-manager.ts:28-30  createSandboxContainer, step 1: buildBaseImage
ImageEnsure ==
  /\ pc = "imageEnsure"
  /\ calls' = Append(calls, "imageEnsure")
  /\ \E firstOk, secondOk \in BOOLEAN :
       LET r == BuildBaseImage(host, image, firstOk, secondOk) IN
       /\ image' = r.image
       /\ builds' = builds + r.builds
       /\ ensures' = Append(ensures, EnsureRecord(host, r))
       /\ IF r.raised
            THEN CatchHandler(phases, "docker build failed")
            ELSE /\ Return("imageEnsure", Append(phases, "ImageReady"))
                 /\ UNCHANGED << worktrees, container >>
  /\ UNCHANGED << flags, host, projectDir, options, worktreeDir, configs, staged,
                  sandboxCommands, execLog, execResult, gitCmds, child >>
  /\ UNCHANGED << wait, startup, cmdStatus, capture >>
  /\ UNCHANGED << commit, attach, envFile, configTree, script, units, bundle, creations,
                  sessions, accesses >>

\* container-manager.ts:32-128  createSandboxContainer, steps 2 and 3: the
\* staging of the configuration under /tmp and docker.createContainer
StagedPaths(claudeJson, preCommands) ==
  {"tempConfigDir"}
  \cup (IF claudeJson # Undefined THEN {"claudeJsonTemp"} ELSE {})
  \cup (IF Len(preCommands) > 0 THEN {"initScript", "currentEnvPath"} ELSE {})

ContainerCreate ==
  /\ pc = "containerCreate"
  /\ calls' = Append(calls, "containerCreate")
  /\ \E stageOk, createOk \in BOOLEAN :
       LET claudeJson == SessionClaudeJson(host)
           pre == PassedPreCommands(LoadedCommands(host))
           spec == ContainerSpec(MountedProjectPath(worktreeDir), claudeJson,
                                 SessionEnvVars(configs), pre) IN
       IF ~stageOk
         THEN /\ CatchHandler(phases, "staging failed")
              /\ staged' = staged
         ELSE /\ staged' = staged \cup StagedPaths(claudeJson, pre)
              /\ IF createOk
                   THEN /\ container' = [state |-> "created",
                                         binds |-> spec.binds, env |-> spec.env]
                        /\ worktrees' = worktrees
                        /\ Return("containerCreate", phases)
                   ELSE CatchHandler(phases, "createContainer failed")
  /\ UNCHANGED << flags, host, projectDir, image, options, worktreeDir, configs,
                  sandboxCommands, execLog, execResult, gitCmds, child, builds >>
  /\ UNCHANGED << ensures, wait, startup, cmdStatus, capture >>
  /\ UNCHANGED << commit, attach, envFile, configTree, script, units, bundle, creations,
                  sessions, accesses >>

\* container-manager.ts:130-134  createSandboxContainer, step 4: start
ContainerStart ==
  /\ pc = "containerStart"
  /\ calls' = Append(calls, "containerStart")
  /\ \E ok \in BOOLEAN :
       IF ok
         THEN /\ container' = [container EXCEPT !.state = "running"]
              /\ worktrees' = worktrees
              /\ Return("containerStart", Append(phases, "ContainerRunning"))
         ELSE CatchHandler(phases, "container start failed")
  /\ UNCHANGED << flags, host, projectDir, image, options, worktreeDir, configs,
                  staged, sandboxCommands, execLog, execResult, gitCmds, child,
                  builds >>
  /\ UNCHANGED << ensures, wait, startup, cmdStatus, capture >>
  /\ UNCHANGED << commit, attach, envFile, configTree, script, units, bundle, creations,
                  sessions, accesses >>

\* cli.ts:52-58  loadConfig, then executeCommands when commands exist; the
\* value executeCommands returns is dropped
\* (ExecuteProjectCommandsFatal: the variant that raises when a command fails)
ExecuteProjectCommandsFatal ==
  /\ pc = "executeCommands"
  /\ sandboxCommands' = LoadedCommands(host)
  /\ IF Len(sandboxCommands') > 0
       THEN /\ calls' = Append(calls, "executeCommands")
            /\ \E failAt \in 0..Len(sandboxCommands') :
                 LET r == ExecuteCommands(sandboxCommands', failAt) IN
                 /\ execLog' = r.ran
                 /\ execResult' = [failed |-> r.failed, command |-> r.command]
                 /\ IF r.failed
                      THEN CatchHandler(phases, "command failed")
                      ELSE /\ Return("executeCommands",
                                     Append(phases, "CommandsExecuted"))
                           /\ UNCHANGED << worktrees, container >>
       ELSE /\ Skip("executeCommands")
            /\ UNCHANGED << execLog, execResult, worktrees, container >>
  /\ UNCHANGED << flags, host, projectDir, image, options, worktreeDir,
                  configs, staged, gitCmds, child, builds >>
  /\ UNCHANGED << ensures, wait, startup, cmdStatus, capture >>
  /\ UNCHANGED << commit, attach, envFile, configTree, script, units, bundle, creations,
                  sessions, accesses >>
ExecuteProjectCommands ==
  /\ pc = "executeCommands"
  /\ sandboxCommands' = LoadedCommands(host)
  /\ IF Len(sandboxCommands') > 0
       THEN /\ calls' = Append(calls, "executeCommands")
            /\ \E failAt \in 0..Len(sandboxCommands') :
                 LET r == ExecuteCommands(sandboxCommands', failAt) IN
                 /\ execLog' = r.ran
                 /\ execResult' = [failed |-> r.failed, command |-> r.command]
            /\ Return("executeCommands", Append(phases, "CommandsExecuted"))
       ELSE /\ Skip("executeCommands")
            /\ UNCHANGED << execLog, execResult >>
  /\ UNCHANGED << flags, host, projectDir, image, options, worktreeDir,
                  worktrees, configs, staged, container, gitCmds, child, builds >>
  /\ UNCHANGED << ensures, wait, startup, cmdStatus, capture >>
  /\ UNCHANGED << commit, attach, envFile, configTree, script, units, bundle, creations,
                  sessions, accesses >>

\* cli.ts:61  attachTerminal(container.id): hasPreCommands keeps its default
HasPreCommandsArgument == FALSE

\* container-manager.ts:102-104  this.currentEnvPath is set by a
\* createSandboxContainer that was given setup commands
CurrentEnvPathSet == "currentEnvPath" \in staged

\* container-manager.ts:137-192  attachTerminal up to the readiness wait or,
\* without one, the spawn of docker exec
AttachCall(hasPreCommands) ==
  /\ pc = "attachTerminal"
  /\ calls' = Append(calls, "attachTerminal")
  /\ IF ~host.isTTY
       THEN /\ Return("attachTerminal", Append(phases, "Attached"))
            /\ attach' = [attach EXCEPT !.returned = "undefined"]
            /\ UNCHANGED << child, wait >>
       ELSE IF hasPreCommands
       THEN /\ wait' = [NoWait EXCEPT !.state = "polling"]
            /\ pc' = "waitForInit"
            /\ UNCHANGED << child, attach, completed, phases, errorLines,
                            error, exitCode >>
       ELSE /\ child' = "running"
            /\ attach' = [attach EXCEPT
                            !.overrides = EnvOverrides(CurrentEnvPathSet, envFile)]
            /\ pc' = "attached"
            /\ UNCHANGED << wait, completed, phases, errorLines, error, exitCode >>
  /\ UNCHANGED << flags, host, projectDir, image, options, worktreeDir,
                  worktrees, configs, staged, container, sandboxCommands,
                  execLog, execResult, gitCmds, builds >>
  /\ UNCHANGED << ensures, startup, cmdStatus, capture >>
  /\ UNCHANGED << commit, envFile, configTree, script, units, bundle, creations,
                  sessions, accesses >>

\* cli.ts:61  await containerManager.attachTerminal(container.id)
AttachTerminal == AttachCall(HasPreCommandsArgument)

\* container-manager.ts:202-250 with 153-192  waitForInitCompletion: one
\* iteration of the poll loop, or the end of the loop at the maximum wait;
\* when the wait returns, attachTerminal goes on to spawn docker exec
WaitForInitCompletion ==
  /\ pc = "waitForInit"
  /\ wait.state = "polling"
  /\ IF wait.elapsed < MaxWaitTime
       THEN \E retrieval \in {"ok", "fails", "timesOut"} :
            LET logs == SubSeq(startup.lines, 1, startup.emitted)
                outcome == PollOutcome(retrieval, logs) IN
            IF outcome = "return"
              THEN /\ wait' = [wait EXCEPT !.state = "returned",
                                           !.polls = @ + 1,
                                           !.last = retrieval,
                                           !.outcome = "sentinel"]
                   /\ child' = "running"
                   /\ attach' = [attach EXCEPT !.overrides =
                                   EnvOverrides(CurrentEnvPathSet, envFile)]
                   /\ pc' = "attached"
                   /\ UNCHANGED << completed, phases, errorLines, error,
                                   exitCode, worktrees, container >>
            ELSE IF outcome = "raise"
              THEN /\ wait' = [wait EXCEPT !.polls = @ + 1, !.last = retrieval,
                                           !.outcome = "raised"]
                   /\ UNCHANGED << child, attach >>
                   /\ CatchHandler(phases, "readiness wait failed")
            ELSE /\ wait' = [wait EXCEPT !.polls = @ + 1,
                                         !.last = retrieval,
                                         !.elapsed = @ + IterationTime(retrieval)]
                 /\ UNCHANGED << child, attach, pc, completed, phases, errorLines,
                                 error, exitCode, worktrees, container >>
       ELSE /\ wait' = [wait EXCEPT !.state = "returned", !.outcome = "timeout"]
            /\ child' = "running"
            /\ attach' = [attach EXCEPT !.overrides =
                            EnvOverrides(CurrentEnvPathSet, envFile)]
            /\ pc' = "attached"
            /\ UNCHANGED << completed, phases, errorLines, error, exitCode,
                            worktrees, container >>
  /\ UNCHANGED << flags, host, projectDir, image, options, worktreeDir, configs,
                  staged, sandboxCommands, execLog, execResult, gitCmds, calls,
                  builds, ensures, startup, cmdStatus, capture >>
  /\ UNCHANGED << commit, envFile, configTree, script, units, bundle, creations,
                  sessions, accesses >>

\* the container's startup writes its next line of output; with the last
\* line the entrypoint has created the marker and executed the command, or
\* has stopped
StartupStep ==
  /\ container.state = "running"
  /\ startup.emitted < Len(startup.lines)
  /\ LET run == EntrypointRun(startup.version, HasInitScript(container.env),
                              startup.scriptFile, startup.commands, cmdStatus)
         last == startup.emitted + 1 = Len(startup.lines) IN
     startup' = [startup EXCEPT !.emitted = @ + 1,
                                !.marker = last /\ run.marker,
                                !.execed = last /\ run.execed]
  /\ UNCHANGED << flags, host, projectDir, image, pc, options, worktreeDir,
                  worktrees, configs, staged, container, sandboxCommands,
                  execLog, execResult, gitCmds, child, calls, completed, phases,
                  builds, errorLines, error, exitCode, ensures, wait, cmdStatus,
                  capture >>
  /\ UNCHANGED << commit, attach, envFile, configTree, script, units, bundle, creations,
                  sessions, accesses >>

\* the exit status of the interactive process
ChildStatuses == { "0", "1" }

\* container-manager.ts:194-199  the exit event of the interactive process
\* resolves the promise attachTerminal returned
\* (ChildExitUnheard: the variant without a listener for the exit event)
ChildExitUnheard ==
  /\ pc = "attached"
  /\ child = "running"
  /\ child' = "exited"
  /\ \E status \in ChildStatuses :
       attach' = [attach EXCEPT !.status = status]
  /\ UNCHANGED << flags, host, projectDir, image, options, worktreeDir,
                  worktrees, configs, staged, container, sandboxCommands,
                  execLog, execResult, gitCmds, calls, builds, pc, completed,
                  phases, errorLines, error, exitCode >>
  /\ UNCHANGED << ensures, wait, startup, cmdStatus, capture >>
  /\ UNCHANGED << commit, envFile, configTree, script, units, bundle, creations,
                  sessions, accesses >>
ChildExit ==
  /\ pc = "attached"
  /\ child = "running"
  /\ child' = "exited"
  /\ \E status \in ChildStatuses :
       attach' = [attach EXCEPT !.status = status,
                                !.returned = AttachReturn(status)]
  /\ Return("attachTerminal", Append(phases, "Attached"))
  /\ UNCHANGED << flags, host, projectDir, image, options, worktreeDir,
                  worktrees, configs, staged, container, sandboxCommands,
                  execLog, execResult, gitCmds, calls, builds >>
  /\ UNCHANGED << ensures, wait, startup, cmdStatus, capture >>
  /\ UNCHANGED << commit, envFile, configTree, script, units, bundle, creations,
                  sessions, accesses >>

\* worktree-manager.ts:49-92  the git commands of commitChanges for a status
\* query that fails or finds the copy clean or dirty, and a commit-message
\* strategy that reports success or fallback
\* (CommitCommandsAlways: the variant that stages and commits whatever the
\* strategy reported)
CommitCommandsAlways(status, strategy, addOk) ==
  IF status # "dirty" THEN << "status" >>
  ELSE IF ~addOk THEN << "status", "add" >>
  ELSE << "status", "add", "commit" >>
CommitCommands(status, strategy, addOk) ==
  IF status # "dirty" \/ strategy # "fallback" THEN << "status" >>
  ELSE IF ~addOk THEN << "status", "add" >>
  ELSE << "status", "add", "commit" >>

CommitRaises(status, strategy, addOk, commitOk) ==
  \/ status = "fails"
  \/ status = "dirty" /\ strategy = "throws"
  \/ status = "dirty" /\ strategy = "fallback" /\ ~(addOk /\ commitOk)

\* cli.ts:63-67  commitChanges when a worktree was created
CommitChanges ==
  /\ pc = "commitChanges"
  /\ IF worktreeDir # Undefined /\ options.worktree
       THEN /\ calls' = Append(calls, "commitChanges")
            /\ \E status \in {"fails", "clean", "dirty"},
                  strategy \in {"success", "fallback", "throws"},
                  addOk, commitOk \in BOOLEAN :
                 /\ gitCmds' = gitCmds \o CommitCommands(status, strategy, addOk)
                 /\ commit' = CommitObserved(status, strategy, addOk, commitOk)
                 /\ IF CommitRaises(status, strategy, addOk, commitOk)
                      THEN CatchHandler(phases, "Failed to commit changes")
                      ELSE /\ Return("commitChanges", Append(phases, "Committed"))
                           /\ UNCHANGED << worktrees, container >>
       ELSE /\ Skip("commitChanges")
            /\ UNCHANGED << gitCmds, commit, worktrees, container >>
  /\ UNCHANGED << flags, host, projectDir, image, options, worktreeDir, configs,
                  staged, sandboxCommands, execLog, execResult, child, builds >>
  /\ UNCHANGED << ensures, wait, startup, cmdStatus, capture >>
  /\ UNCHANGED << attach, envFile, configTree, script, units, bundle, creations,
                  sessions, accesses >>

\* cli.ts:69-71 with container-manager.ts:278-283  stopContainer
StopContainer ==
  /\ pc = "stopContainer"
  /\ IF ~options.preserveContainer
       THEN /\ calls' = Append(calls, "stopContainer")
            /\ \E ok \in BOOLEAN :
                 IF ok
                   THEN /\ container' = [container EXCEPT !.state = "stopped"]
                        /\ worktrees' = worktrees
                        /\ Return("stopContainer", phases)
                   ELSE CatchHandler(phases, "container stop failed")
       ELSE /\ Skip("stopContainer")
            /\ UNCHANGED << worktrees, container >>
  /\ UNCHANGED << flags, host, projectDir, image, options, worktreeDir, configs,
                  staged, sandboxCommands, execLog, execResult, gitCmds, child,
                  builds >>
  /\ UNCHANGED << ensures, wait, startup, cmdStatus, capture >>
  /\ UNCHANGED << commit, attach, envFile, configTree, script, units, bundle, creations,
                  sessions, accesses >>

\* cli.ts:70-72 with container-manager.ts:285-290  removeContainer
RemoveContainer ==
  /\ pc = "removeContainer"
  /\ IF ~options.preserveContainer
       THEN /\ calls' = Append(calls, "removeContainer")
            /\ \E ok \in BOOLEAN :
                 IF ok
                   THEN /\ container' = [container EXCEPT !.state = "removed"]
                        /\ worktrees' = worktrees
                        /\ Return("removeContainer", phases)
                   ELSE CatchHandler(phases, "container remove failed")
       ELSE /\ Skip("removeContainer")
            /\ UNCHANGED << worktrees, container >>
  /\ UNCHANGED << flags, host, projectDir, image, options, worktreeDir, configs,
                  staged, sandboxCommands, execLog, execResult, gitCmds, child,
                  builds >>
  /\ UNCHANGED << ensures, wait, startup, cmdStatus, capture >>
  /\ UNCHANGED << commit, attach, envFile, configTree, script, units, bundle, creations,
                  sessions, accesses >>

\* cli.ts:75  'Sandbox session completed': createSandbox returns and the
\* process ends without process.exit(1)
SessionCompleted ==
  /\ pc = "sessionCompleted"
  /\ pc' = "done"
  /\ exitCode' = "0"
  /\ phases' = Append(phases, IF options.preserveContainer THEN "Preserved"
                                                           ELSE "TornDown")
  /\ UNCHANGED << flags, host, projectDir, image, options, worktreeDir,
                  worktrees, configs, staged, container, sandboxCommands,
                  execLog, execResult, gitCmds, child, calls, completed, builds,
                  errorLines, error >>
  /\ UNCHANGED << ensures, wait, startup, cmdStatus, capture >>
  /\ UNCHANGED << commit, attach, envFile, configTree, script, units, bundle, creations,
                  sessions, accesses >>

Next ==
  \/ ProgramAction
  \/ ValidateEnvironment
  \/ WorktreeCreate
  \/ CollectAllConfigs
  \/ ImageEnsure
  \/ ContainerCreate
  \/ ContainerStart
  \/ ExecuteProjectCommands
  \/ AttachTerminal
  \/ ChildExit
  \/ CommitChanges
  \/ StopContainer
  \/ RemoveContainer
  \/ SessionCompleted

Spec == Init /\ [][Next]_vars

\* cli.ts:21-75  every awaited call of createSandbox returns or raises, and
\* the interactive process that attachTerminal spawned exits
ExternalCall ==
  \/ ProgramAction
  \/ ValidateEnvironment
  \/ WorktreeCreate
  \/ CollectAllConfigs
  \/ ImageEnsure
  \/ ContainerCreate
  \/ ContainerStart
  \/ ExecuteProjectCommands
  \/ AttachTerminal
  \/ CommitChanges
  \/ StopContainer
  \/ RemoveContainer
  \/ SessionCompleted

FairSpec ==
  /\ Init
  /\ [][Next]_vars
  /\ WF_vars(ExternalCall)
  /\ WF_vars(ChildExit)

\* ------------------------------------------ attachTerminal on a container
\* A container that createSandboxContainer created with a list of setup
\* commands and started, and a call attachTerminal(id, hasPreCommands) while
\* the container's startup writes its output.

StartupOutcomes ==
  { [ end |-> "ok", stdout |-> "", stderr |-> "" ],
    [ end |-> "exit1", stdout |-> "", stderr |-> "err" ] }

AttachHosts ==
  { h \in Hosts :
      /\ h.dockerUp /\ h.gitInstalled /\ h.claudeHome
      /\ h.claudeFiles = {"settings.json", "configs"} /\ h.configsBytes = 0
      /\ h.projectCommands = <<>>
      /\ h.entrypointMtime = 1 /\ h.createdIsNumber
      /\ h.imageAtStart = [exists |-> TRUE, created |-> MaxInstant] }

AttachInit ==
  /\ flags = [noWorktree |-> FALSE, worktreePath |-> Undefined, preserve |-> FALSE]
  /\ host \in AttachHosts
  /\ projectDir = "repo"
  /\ image = host.imageAtStart
  /\ pc = "attachTerminal"
  /\ options = SandboxOptions(flags)
  /\ worktreeDir = WorktreePath(Undefined)
  /\ worktrees = {worktreeDir}
  /\ configs = DestructuredConfigs(host)
  /\ sandboxCommands = <<>>
  /\ execLog = <<>>
  /\ execResult = [failed |-> FALSE, command |-> ""]
  /\ gitCmds = <<>>
  /\ child = "none"
  /\ calls = <<>>
  /\ completed = <<>>
  /\ phases = <<>>
  /\ builds = 0
  /\ errorLines = 0
  /\ error = ""
  /\ exitCode = "running"
  /\ ensures = <<>>
  /\ wait = NoWait
  /\ capture = NoCapture
  /\ \E preCommands \in Commands, version \in EntrypointVersions,
        scriptFile \in BOOLEAN :
       LET spec == ContainerSpec(MountedProjectPath(worktreeDir), Undefined,
                                 <<>>, preCommands) IN
       /\ staged = StagedPaths(Undefined, preCommands)
       /\ container = [state |-> "running", binds |-> spec.binds,
                       env |-> spec.env]
       /\ cmdStatus \in [1..Len(preCommands) -> StartupOutcomes]
       /\ startup =
            [ version |-> version, scriptFile |-> scriptFile,
              commands |-> preCommands,
              lines |-> EntrypointRun(version, HasInitScript(spec.env),
                                      scriptFile, preCommands, cmdStatus).lines,
              emitted |-> 0, marker |-> FALSE, execed |-> FALSE ]
  /\ commit = NoCommit
  /\ attach = NoAttach
  /\ envFile = NoEnvFile
  /\ configTree = <<>>
  /\ script = <<>>
  /\ containerConfig = NoConfig
  /\ settingsBuffer = NoBuffer
  /\ extracted = <<>>
  /\ transformed = NoBuffer
  /\ projectSettings = NoBuffer
  /\ sandboxConfig = NullConfig
  /\ bundle = {}
  /\ creations = <<>>
  /\ sessions = <<>>
  /\ accesses = {}

\* container-manager.ts:137  attachTerminal(containerId, hasPreCommands)
AttachTerminalCall == \E hasPreCommands \in BOOLEAN : AttachCall(hasPreCommands)

AttachNext ==
  \/ AttachTerminalCall
  \/ WaitForInitCompletion
  \/ StartupStep
  \/ ChildExit

\* the poll loop and the spawn are steps of the running Node process, which
\* the event loop resumes after each await; nothing is assumed of the
\* container's startup or of the interactive child
AttachSpec ==
  /\ AttachInit
  /\ [][AttachNext]_vars
  /\ WF_vars(AttachTerminalCall)
  /\ WF_vars(WaitForInitCompletion)

\* ----------------------------------------- executeCommands on a container
\* A started container and one call executeCommands(containerId, commands).

CommandNames == { "npm install", "make" }

CommandLists == UNION { [1..n -> CommandNames] : n \in 0..MaxCommands }

ExecInit ==
  /\ flags = [noWorktree |-> FALSE, worktreePath |-> Undefined, preserve |-> FALSE]
  /\ host \in { h \in AttachHosts : h.isTTY }
  /\ projectDir = "repo"
  /\ image = host.imageAtStart
  /\ pc = "executeCommands"
  /\ options = SandboxOptions(flags)
  /\ worktreeDir = WorktreePath(Undefined)
  /\ worktrees = {worktreeDir}
  /\ configs = DestructuredConfigs(host)
  /\ staged = StagedPaths(Undefined, <<>>)
  /\ LET spec == ContainerSpec(MountedProjectPath(worktreeDir), Undefined,
                               <<>>, <<>>) IN
     container = [state |-> "running", binds |-> spec.binds, env |-> spec.env]
  /\ sandboxCommands \in CommandLists
  /\ cmdStatus \in [1..Len(sandboxCommands) -> Outcomes]
  /\ execLog = <<>>
  /\ execResult = NullResult
  /\ gitCmds = <<>>
  /\ child = "none"
  /\ calls = <<>>
  /\ completed = <<>>
  /\ phases = <<>>
  /\ builds = 0
  /\ errorLines = 0
  /\ error = ""
  /\ exitCode = "running"
  /\ ensures = <<>>
  /\ wait = NoWait
  /\ startup = NoStartup
  /\ capture = NoCapture
  /\ commit = NoCommit
  /\ attach = NoAttach
  /\ envFile = NoEnvFile
  /\ configTree = <<>>
  /\ script = <<>>
  /\ containerConfig = NoConfig
  /\ settingsBuffer = NoBuffer
  /\ extracted = <<>>
  /\ transformed = NoBuffer
  /\ projectSettings = NoBuffer
  /\ sandboxConfig = NullConfig
  /\ bundle = {}
  /\ creations = <<>>
  /\ sessions = <<>>
  /\ accesses = {}

\* container-manager.ts:252-276  executeCommands(containerId, commands)
ExecuteCommandsCall ==
  /\ pc = "executeCommands"
  /\ LET r == ExecuteCommandsLoop(sandboxCommands, cmdStatus, 1) IN
     /\ execLog' = r.ran
     /\ execResult' = r.result
  /\ pc' = "returned"
  /\ calls' = Append(calls, "executeCommands")
  /\ UNCHANGED << flags, host, projectDir, image, options, worktreeDir,
                  worktrees, configs, staged, container, sandboxCommands,
                  gitCmds, child, completed, phases, builds, errorLines, error,
                  exitCode, ensures, wait, startup, cmdStatus, capture >>
  /\ UNCHANGED << commit, attach, envFile, configTree, script, units, bundle, creations,
                  sessions, accesses >>

ExecNext == ExecuteCommandsCall

ExecSpec == ExecInit /\ [][ExecNext]_vars

\* ------------------------------------------- buildBaseImage, called again
\* A manager whose buildBaseImage is called MaxEnsures times on a host whose
\* entrypoint may be modified between the calls.

MaxEnsures == 2

EnsureInit ==
  /\ flags = [noWorktree |-> FALSE, worktreePath |-> Undefined, preserve |-> FALSE]
  /\ host \in { h \in Hosts :
                  /\ h.dockerUp /\ h.gitInstalled /\ h.claudeHome /\ h.isTTY
                  /\ h.claudeFiles = {"settings.json", "configs"}
                  /\ h.configsBytes = 0 /\ h.projectCommands = <<>> }
  /\ projectDir = "repo"
  /\ image = host.imageAtStart
  /\ pc = "imageEnsure"
  /\ options = SandboxOptions(flags)
  /\ worktreeDir = WorktreePath(Undefined)
  /\ worktrees = {worktreeDir}
  /\ configs = DestructuredConfigs(host)
  /\ staged = {}
  /\ container = NoContainer
  /\ sandboxCommands = <<>>
  /\ execLog = <<>>
  /\ execResult = [failed |-> FALSE, command |-> ""]
  /\ gitCmds = <<>>
  /\ child = "none"
  /\ calls = <<>>
  /\ completed = <<>>
  /\ phases = <<>>
  /\ builds = 0
  /\ errorLines = 0
  /\ error = ""
  /\ exitCode = "running"
  /\ ensures = <<>>
  /\ wait = NoWait
  /\ startup = NoStartup
  /\ cmdStatus = <<>>
  /\ capture = NoCapture
  /\ commit = NoCommit
  /\ attach = NoAttach
  /\ envFile = NoEnvFile
  /\ configTree = <<>>
  /\ script = <<>>
  /\ containerConfig = NoConfig
  /\ settingsBuffer = NoBuffer
  /\ extracted = <<>>
  /\ transformed = NoBuffer
  /\ projectSettings = NoBuffer
  /\ sandboxConfig = NullConfig
  /\ bundle = {}
  /\ creations = <<>>
  /\ sessions = <<>>
  /\ accesses = {}

\* container-manager.ts:292-325  one call of buildBaseImage
BuildBaseImageCall ==
  /\ pc = "imageEnsure"
  /\ Len(ensures) < MaxEnsures
  /\ \E firstOk, secondOk \in BOOLEAN :
       LET r == BuildBaseImage(host, image, firstOk, secondOk) IN
       /\ image' = r.image
       /\ builds' = builds + r.builds
       /\ ensures' = Append(ensures, EnsureRecord(host, r))
  /\ calls' = Append(calls, "imageEnsure")
  /\ UNCHANGED << flags, host, projectDir, pc, options, worktreeDir, worktrees,
                  configs, staged, container, sandboxCommands, execLog,
                  execResult, gitCmds, child, completed, phases, errorLines,
                  error, exitCode, wait, startup, cmdStatus, capture >>
  /\ UNCHANGED << commit, attach, envFile, configTree, script, units, bundle, creations,
                  sessions, accesses >>

\* docker/entrypoint.sh is modified on the host: its modification instant
\* moves forward
TouchEntrypoint ==
  /\ pc = "imageEnsure"
  /\ Len(ensures) < MaxEnsures
  /\ \E m \in (host.entrypointMtime + 1)..(MaxInstant + 1) :
       host' = [host EXCEPT !.entrypointMtime = m]
  /\ UNCHANGED << flags, projectDir, image, pc, options, worktreeDir, worktrees,
                  configs, staged, container, sandboxCommands, execLog,
                  execResult, gitCmds, child, calls, completed, phases, builds,
                  errorLines, error, exitCode, ensures, wait, startup,
                  cmdStatus, capture >>
  /\ UNCHANGED << commit, attach, envFile, configTree, script, units, bundle, creations,
                  sessions, accesses >>

EnsureNext ==
  \/ BuildBaseImageCall
  \/ TouchEntrypoint

EnsureSpec == EnsureInit /\ [][EnsureNext]_vars

\* ------------------------------------ the capture of the generated script
\* The setup script at the point where both snapshots are written, and its
\* computation of ~/.sandbox-env from them.

Snapshots ==
  UNION { [1..n -> { EnvLines[r] : r \in 1..Len(EnvLines) }] : n \in 0..MaxLines }

CaptureInit ==
  /\ flags = [noWorktree |-> FALSE, worktreePath |-> Undefined, preserve |-> FALSE]
  /\ host \in { h \in AttachHosts : h.isTTY }
  /\ projectDir = "repo"
  /\ image = host.imageAtStart
  /\ pc = "initScript"
  /\ options = SandboxOptions(flags)
  /\ worktreeDir = WorktreePath(Undefined)
  /\ worktrees = {worktreeDir}
  /\ configs = DestructuredConfigs(host)
  /\ staged = StagedPaths(Undefined, << "cmd" >>)
  /\ LET spec == ContainerSpec(MountedProjectPath(worktreeDir), Undefined,
                               <<>>, << "cmd" >>) IN
     container = [state |-> "running", binds |-> spec.binds, env |-> spec.env]
  /\ sandboxCommands = <<>>
  /\ execLog = <<>>
  /\ execResult = [failed |-> FALSE, command |-> ""]
  /\ gitCmds = <<>>
  /\ child = "none"
  /\ calls = <<>>
  /\ completed = <<>>
  /\ phases = <<>>
  /\ builds = 0
  /\ errorLines = 0
  /\ error = ""
  /\ exitCode = "running"
  /\ ensures = <<>>
  /\ wait = NoWait
  /\ startup = NoStartup
  /\ cmdStatus = <<>>
  /\ \E before, after \in Snapshots :
       capture = [ before |-> before, after |-> after, file |-> <<>> ]
  /\ commit = NoCommit
  /\ attach = NoAttach
  /\ envFile = NoEnvFile
  /\ configTree = <<>>
  /\ script = <<>>
  /\ containerConfig = NoConfig
  /\ settingsBuffer = NoBuffer
  /\ extracted = <<>>
  /\ transformed = NoBuffer
  /\ projectSettings = NoBuffer
  /\ sandboxConfig = NullConfig
  /\ bundle = {}
  /\ creations = <<>>
  /\ sessions = <<>>
  /\ accesses = {}

\* container-manager.ts:82-90  the script extracts the new and modified
\* variables and writes ~/.sandbox-env
CaptureDelta ==
  /\ pc = "initScript"
  /\ capture' = [capture EXCEPT
                   !.file = SandboxEnvFile(capture.before, capture.after)]
  /\ pc' = "captured"
  /\ UNCHANGED << flags, host, projectDir, image, options, worktreeDir,
                  worktrees, configs, staged, container, sandboxCommands,
                  execLog, execResult, gitCmds, child, calls, completed, phases,
                  builds, errorLines, error, exitCode, ensures, wait, startup,
                  cmdStatus >>
  /\ UNCHANGED << commit, attach, envFile, configTree, script, units, bundle, creations,
                  sessions, accesses >>

CaptureNext == CaptureDelta

CaptureSpec == CaptureInit /\ [][CaptureNext]_vars

\* ------------------------------- attachTerminal and the capture file
\* A container created with or without setup commands and started, a capture
\* file on the host (or none), and the call attachTerminal(container.id).

FileLines ==
  { FileLine(TRUE, FALSE, FALSE, <<>>, ""),
    FileLine(FALSE, TRUE, TRUE, << "#", "PATH" >>, "/commented"),
    FileLine(FALSE, FALSE, FALSE, <<>>, ""),
    FileLine(FALSE, FALSE, TRUE, <<>>, "PATH"),
    FileLine(FALSE, FALSE, TRUE, << "PATH" >>, "/usr/local/bin"),
    FileLine(FALSE, FALSE, TRUE, << "JAVA_", "HOME" >>, "/opt/java"),
    FileLine(FALSE, FALSE, TRUE, << "NVM_", "INSTALL", "_DIR" >>, "/opt/nvm"),
    FileLine(FALSE, FALSE, TRUE, << "FOO" >>, "1"),
    FileLine(FALSE, FALSE, TRUE, << "path" >>, "/lower") }

EnvFiles ==
  { NoEnvFile, [ exists |-> TRUE, readable |-> FALSE, lines |-> <<>> ] }
  \cup { [ exists |-> TRUE, readable |-> TRUE, lines |-> lines ] :
           lines \in UNION { [1..n -> FileLines] : n \in 0..MaxLines } }

OverridesInit ==
  /\ flags = [noWorktree |-> FALSE, worktreePath |-> Undefined, preserve |-> FALSE]
  /\ host \in AttachHosts
  /\ projectDir = "repo"
  /\ image = host.imageAtStart
  /\ pc = "attachTerminal"
  /\ options = SandboxOptions(flags)
  /\ worktreeDir = WorktreePath(Undefined)
  /\ worktrees = {worktreeDir}
  /\ configs = DestructuredConfigs(host)
  /\ sandboxCommands = <<>>
  /\ execLog = <<>>
  /\ execResult = [failed |-> FALSE, command |-> ""]
  /\ gitCmds = <<>>
  /\ child = "none"
  /\ calls = <<>>
  /\ completed = <<>>
  /\ phases = <<>>
  /\ builds = 0
  /\ errorLines = 0
  /\ error = ""
  /\ exitCode = "running"
  /\ ensures = <<>>
  /\ wait = NoWait
  /\ startup = NoStartup
  /\ cmdStatus = <<>>
  /\ capture = NoCapture
  /\ commit = NoCommit
  /\ attach = NoAttach
  /\ configTree = <<>>
  /\ script = <<>>
  /\ containerConfig = NoConfig
  /\ settingsBuffer = NoBuffer
  /\ extracted = <<>>
  /\ transformed = NoBuffer
  /\ projectSettings = NoBuffer
  /\ sandboxConfig = NullConfig
  /\ bundle = {}
  /\ creations = <<>>
  /\ sessions = <<>>
  /\ accesses = {}
  /\ \E preCommands \in Commands :
       LET spec == ContainerSpec(MountedProjectPath(worktreeDir), Undefined,
                                 <<>>, preCommands) IN
       /\ staged = StagedPaths(Undefined, preCommands)
       /\ container = [state |-> "running", binds |-> spec.binds,
                       env |-> spec.env]
       /\ envFile \in IF Len(preCommands) > 0 THEN EnvFiles ELSE { NoEnvFile }

OverridesNext ==
  \/ AttachTerminal
  \/ ChildExit

OverridesSpec == OverridesInit /\ [][OverridesNext]_vars

\* ------------------------------------------- collectAllConfigs on a tree
\* A configuration root ~/.claude holding any tree of files, directories and
\* symbolic links up to MaxDepth levels deep, and one collectAllConfigs call.

RECURSIVE Listings(_)
Listings(depth) ==
  IF depth = 0 THEN { EmptyListing }
  ELSE [ ConfigNames ->
           { Entry(kind, <<>>) : kind \in { "absent", "file", "symlink" } }
           \cup { Entry("dir", entries) : entries \in Listings(depth - 1) } ]

ConfigInit ==
  /\ flags = [noWorktree |-> FALSE, worktreePath |-> Undefined, preserve |-> FALSE]
  /\ host \in { h \in AttachHosts : h.isTTY }
  /\ projectDir = "repo"
  /\ image = host.imageAtStart
  /\ pc = "collectAllConfigs"
  /\ options = SandboxOptions(flags)
  /\ worktreeDir = WorktreePath(Undefined)
  /\ worktrees = {worktreeDir}
  /\ configs = [defined |-> FALSE, bytes |-> 0]
  /\ staged = {}
  /\ container = NoContainer
  /\ sandboxCommands = <<>>
  /\ execLog = <<>>
  /\ execResult = [failed |-> FALSE, command |-> ""]
  /\ gitCmds = <<>>
  /\ child = "none"
  /\ calls = <<>>
  /\ completed = <<>>
  /\ phases = <<>>
  /\ builds = 0
  /\ errorLines = 0
  /\ error = ""
  /\ exitCode = "running"
  /\ ensures = <<>>
  /\ wait = NoWait
  /\ startup = NoStartup
  /\ cmdStatus = <<>>
  /\ capture = NoCapture
  /\ commit = NoCommit
  /\ attach = NoAttach
  /\ envFile = NoEnvFile
  /\ configTree \in Listings(MaxDepth)
  /\ script = <<>>
  /\ containerConfig = NoConfig
  /\ settingsBuffer = NoBuffer
  /\ extracted = <<>>
  /\ transformed = NoBuffer
  /\ projectSettings = NoBuffer
  /\ sandboxConfig = NullConfig
  /\ bundle = {}
  /\ creations = <<>>
  /\ sessions = <<>>
  /\ accesses = {}

\* claude-config.ts:17-51  collectAllConfigs(); a file that cannot be read
\* makes readFile, and with it the call, raise
CollectAllConfigsCall ==
  /\ pc = "collectAllConfigs"
  /\ \E readOk \in BOOLEAN :
       LET keys == CollectDirectory(configTree, <<>>) IN
       IF readOk \/ keys = {}
         THEN /\ bundle' = keys
              /\ pc' = "returned"
              /\ error' = error
         ELSE /\ bundle' = bundle
              /\ pc' = "raised"
              /\ error' = "readFile failed"
  /\ calls' = Append(calls, "collectAllConfigs")
  /\ UNCHANGED << flags, host, projectDir, image, options, worktreeDir,
                  worktrees, configs, staged, container, sandboxCommands,
                  execLog, execResult, gitCmds, child, completed, phases,
                  builds, errorLines, exitCode, ensures, wait, startup,
                  cmdStatus, capture, commit, attach, envFile, configTree, script, units,
                  creations, sessions, accesses >>

ConfigNext == CollectAllConfigsCall

ConfigSpec == ConfigInit /\ [][ConfigNext]_vars

\* ------------------------------------------ GitWorktreeManager.create calls
\* Up to MaxCreations calls of create, by sessions that may run at the same
\* time: each on a project, with or without a custom path, from a current
\* directory, at a millisecond of the clock.

Root(name) == Path(TRUE, << Plain(name) >>)

Projects == { Join(Root("a"), Plain("proj")), Join(Root("b"), Plain("proj")),
              Join(Root("a"), Plain("plain")) }

Repositories == Projects \ { Join(Root("a"), Plain("plain")) }

Cwds == { Root("a"), Root("b") }

CustomPaths ==
  { NoPath,
    Path(FALSE, << Plain("wt") >>),
    Path(FALSE, << Plain(".."), Plain("wt") >>),
    Path(TRUE, << Plain("a"), Plain("wt") >>),
    Path(TRUE, << Plain("b"), Plain("wt") >>),
    Path(TRUE, << Plain("a"), Plain(".."), Plain("b"), Plain("wt") >>) }

\* the inputs of a call; the current directory only matters to a relative
\* custom path
CreateInputs ==
  { in \in [ project : Projects, customPath : CustomPaths, cwd : Cwds ] :
      /\ (in.customPath = NoPath \/ in.customPath.abs) => in.cwd = Root("a")
      /\ in.project \notin Repositories => in.customPath = NoPath }

WorktreeInit ==
  /\ flags = [noWorktree |-> FALSE, worktreePath |-> Undefined, preserve |-> FALSE]
  /\ host \in { h \in AttachHosts : h.isTTY }
  /\ projectDir = "repo"
  /\ image = host.imageAtStart
  /\ pc = "worktreeCreate"
  /\ options = SandboxOptions(flags)
  /\ worktreeDir = WorktreePath(Undefined)
  /\ worktrees = {worktreeDir}
  /\ configs = [defined |-> FALSE, bytes |-> 0]
  /\ staged = {}
  /\ container = NoContainer
  /\ sandboxCommands = <<>>
  /\ execLog = <<>>
  /\ execResult = [failed |-> FALSE, command |-> ""]
  /\ gitCmds = <<>>
  /\ child = "none"
  /\ calls = <<>>
  /\ completed = <<>>
  /\ phases = <<>>
  /\ builds = 0
  /\ errorLines = 0
  /\ error = ""
  /\ exitCode = "running"
  /\ ensures = <<>>
  /\ wait = NoWait
  /\ startup = NoStartup
  /\ cmdStatus = <<>>
  /\ capture = NoCapture
  /\ commit = NoCommit
  /\ attach = NoAttach
  /\ envFile = NoEnvFile
  /\ configTree = <<>>
  /\ script = <<>>
  /\ containerConfig = NoConfig
  /\ settingsBuffer = NoBuffer
  /\ extracted = <<>>
  /\ transformed = NoBuffer
  /\ projectSettings = NoBuffer
  /\ sandboxConfig = NullConfig
  /\ bundle = {}
  /\ creations = <<>>
  /\ sessions = <<>>
  /\ accesses = {}

\* the earlier calls whose git worktree add succeeded
Created == { creations[i] : i \in { j \in 1..Len(creations) : creations[j].ok } }

\* worktree-manager.ts:10-47  GitWorktreeManager.create(customPath); git
\* worktree add -b refuses a branch the repository already has and a path
\* that already exists, and may fail for any other reason
Create ==
  /\ Len(creations) < MaxCreations
  /\ \E in \in CreateInputs, gitOk \in BOOLEAN,
        timestamp \in (IF creations = <<>> THEN 1
                       ELSE creations[Len(creations)].timestamp)..MaxInstant :
       LET absoluteWorktreePath ==
             AbsoluteWorktreePath(in.project, in.customPath, in.cwd, timestamp)
           sandboxBranch == SandboxBranch(absoluteWorktreePath)
           ok == /\ gitOk
                 /\ \A c \in Created :
                      /\ c.path # absoluteWorktreePath
                      /\ c.project = in.project => c.branch # sandboxBranch
       IN creations' = Append(creations,
            IF in.project \notin Repositories
              THEN [ project |-> in.project, customPath |-> in.customPath,
                     cwd |-> in.cwd, timestamp |-> timestamp, git |-> FALSE,
                     branch |-> NoBranch, path |-> NoPath, ok |-> FALSE,
                     returned |-> NoPath,
                     raised |-> "Project is not a git repository" ]
              ELSE [ project |-> in.project, customPath |-> in.customPath,
                     cwd |-> in.cwd, timestamp |-> timestamp, git |-> TRUE,
                     branch |-> sandboxBranch, path |-> absoluteWorktreePath,
                     ok |-> ok,
                     returned |-> IF ok THEN absoluteWorktreePath ELSE NoPath,
                     raised |-> IF ok THEN ""
                                ELSE "Failed to create git worktree" ])
  /\ UNCHANGED << flags, host, projectDir, image, pc, options, worktreeDir,
                  worktrees, configs, staged, container, sandboxCommands,
                  execLog, execResult, gitCmds, child, calls, completed,
                  phases, builds, errorLines, error, exitCode, ensures, wait,
                  startup, cmdStatus, capture, commit, attach, envFile,
                  configTree, script, units, bundle, sessions, accesses >>

WorktreeNext == Create

WorktreeSpec == WorktreeInit /\ [][WorktreeNext]_vars

\* ------------------------------------- two createSandboxContainer processes
\* Two claude-sandbox processes on one host and one docker daemon, each in
\* createSandboxContainer, their steps interleaved in any order.

\* session names as sequences of "-"-separated parts: x, y, x-env
SessionNames == { << "x" >>, << "y" >>, << "x", "env" >> }

SessionConfigs ==
  [ name : SessionNames, claudeJson : BOOLEAN, preCommands : BOOLEAN ]

NewSession(config) ==
  [ name |-> config.name, claudeJson |-> config.claudeJson,
    preCommands |-> config.preCommands, pc |-> "inspect", built |-> FALSE,
    created |-> FALSE, outcome |-> "", error |-> "" ]

ConcurrentInit ==
  /\ flags = [noWorktree |-> FALSE, worktreePath |-> Undefined, preserve |-> FALSE]
  /\ host \in { h \in Hosts :
                  /\ h.dockerUp /\ h.gitInstalled /\ h.claudeHome /\ h.isTTY
                  /\ h.claudeFiles = {"settings.json", "configs"}
                  /\ h.configsBytes = 0 /\ h.projectCommands = <<>> }
  /\ projectDir = "repo"
  /\ image = host.imageAtStart
  /\ pc = "createContainer"
  /\ options = SandboxOptions(flags)
  /\ worktreeDir = WorktreePath(Undefined)
  /\ worktrees = {worktreeDir}
  /\ configs = [defined |-> FALSE, bytes |-> 0]
  /\ staged = {}
  /\ container = NoContainer
  /\ sandboxCommands = <<>>
  /\ execLog = <<>>
  /\ execResult = [failed |-> FALSE, command |-> ""]
  /\ gitCmds = <<>>
  /\ child = "none"
  /\ calls = <<>>
  /\ completed = <<>>
  /\ phases = <<>>
  /\ builds = 0
  /\ errorLines = 0
  /\ error = ""
  /\ exitCode = "running"
  /\ ensures = <<>>
  /\ wait = NoWait
  /\ startup = NoStartup
  /\ cmdStatus = <<>>
  /\ capture = NoCapture
  /\ commit = NoCommit
  /\ attach = NoAttach
  /\ envFile = NoEnvFile
  /\ configTree = <<>>
  /\ script = <<>>
  /\ containerConfig = NoConfig
  /\ settingsBuffer = NoBuffer
  /\ extracted = <<>>
  /\ transformed = NoBuffer
  /\ projectSettings = NoBuffer
  /\ sandboxConfig = NullConfig
  /\ bundle = {}
  /\ creations = <<>>
  /\ sessions \in { << NewSession(a), NewSession(b) >> :
                      a \in SessionConfigs, b \in SessionConfigs }
  /\ accesses = {}

ConcurrentUnchanged ==
  UNCHANGED << flags, host, projectDir, pc, options, worktreeDir, worktrees,
               configs, staged, container, sandboxCommands, execLog,
               execResult, gitCmds, child, calls, completed, phases,
               errorLines, error, exitCode, ensures, wait, startup, cmdStatus,
               capture, commit, attach, envFile, configTree, script, units, bundle,
               creations >>

\* the image a docker build makes now
BuiltImage ==
  [ exists |-> TRUE,
    created |-> IF host.entrypointMtime > MaxInstant
                THEN host.entrypointMtime ELSE MaxInstant ]

\* container-manager.ts:297-312  getImage(imageName).inspect() and the
\* comparison with the entrypoint
Inspect ==
  \E i \in DOMAIN sessions :
    /\ sessions[i].pc = "inspect"
    /\ sessions' = [ sessions EXCEPT ![i].pc =
                       IF ~image.exists THEN "build"
                       ELSE IF EntrypointNewer(host, image) THEN "rebuild"
                       ELSE "ensureDir" ]
    /\ accesses' = accesses \cup { Access("image", ImageTag, i, "read") }
    /\ UNCHANGED << image, builds >>
    /\ ConcurrentUnchanged

\* container-manager.ts:306-311  the rebuild; a failure lands in the catch
\* of line 314, which builds again
Rebuild ==
  \E i \in DOMAIN sessions :
    /\ sessions[i].pc = "rebuild"
    /\ \E ok \in BOOLEAN :
         /\ image' = IF ok THEN BuiltImage ELSE image
         /\ sessions' = [ sessions EXCEPT
                            ![i].pc = IF ok THEN "ensureDir" ELSE "build",
                            ![i].built = ok ]
    /\ builds' = builds + 1
    /\ accesses' = accesses \cup { Access("image", ImageTag, i, "write") }
    /\ ConcurrentUnchanged

\* container-manager.ts:314-323  the build in the catch; its failure is
\* rethrown
Build ==
  \E i \in DOMAIN sessions :
    /\ sessions[i].pc = "build"
    /\ \E ok \in BOOLEAN :
         /\ image' = IF ok THEN BuiltImage ELSE image
         /\ sessions' = [ sessions EXCEPT
                            ![i].pc = IF ok THEN "ensureDir" ELSE "done",
                            ![i].built = ok,
                            ![i].outcome = IF ok THEN "" ELSE "raised",
                            ![i].error = IF ok THEN "" ELSE "docker build failed" ]
    /\ builds' = builds + 1
    /\ accesses' = accesses \cup { Access("image", ImageTag, i, "write") }
    /\ ConcurrentUnchanged

\* container-manager.ts:32-40  the configuration directory and its files
EnsureConfigDir ==
  \E i \in DOMAIN sessions :
    /\ sessions[i].pc = "ensureDir"
    /\ sessions' = [ sessions EXCEPT ![i].pc = "claudeJson" ]
    /\ accesses' = accesses \cup
         { Access("file", TempConfigDir(sessions[i].name), i, "write") }
    /\ UNCHANGED << image, builds >>
    /\ ConcurrentUnchanged

\* container-manager.ts:48-54  the copy of ~/.claude.json
WriteClaudeJson ==
  \E i \in DOMAIN sessions :
    /\ sessions[i].pc = "claudeJson"
    /\ sessions' = [ sessions EXCEPT ![i].pc = "initScript" ]
    /\ accesses' = accesses \cup
         ( IF sessions[i].claudeJson
             THEN { Access("file", ClaudeJsonTempPath(sessions[i].name), i, "write") }
             ELSE {} )
    /\ UNCHANGED << image, builds >>
    /\ ConcurrentUnchanged

\* container-manager.ts:62-105  the init script and the capture directory
WriteInitScript ==
  \E i \in DOMAIN sessions :
    /\ sessions[i].pc = "initScript"
    /\ sessions' = [ sessions EXCEPT ![i].pc = "create" ]
    /\ accesses' = accesses \cup
         ( IF sessions[i].preCommands
             THEN { Access("file", InitScriptPath(sessions[i].name), i, "write"),
                    Access("file", CurrentEnvPath(sessions[i].name), i, "write") }
             ELSE {} )
    /\ UNCHANGED << image, builds >>
    /\ ConcurrentUnchanged

\* container-manager.ts:108-123  docker.createContainer({ name: config.name });
\* the daemon refuses a name another container has
CreateContainer ==
  \E i \in DOMAIN sessions :
    /\ sessions[i].pc = "create"
    /\ LET conflict == \E j \in DOMAIN sessions :
                          /\ j # i /\ sessions[j].created
                          /\ sessions[j].name = sessions[i].name IN
       sessions' = [ sessions EXCEPT
                      ![i].pc = IF conflict THEN "done" ELSE "start",
                      ![i].created = ~conflict,
                      ![i].outcome = IF conflict THEN "raised" ELSE "",
                      ![i].error = IF conflict THEN "name conflict" ELSE "" ]
    /\ accesses' = accesses \cup
         { Access("container", sessions[i].name, i, "write") }
    /\ UNCHANGED << image, builds >>
    /\ ConcurrentUnchanged

\* container-manager.ts:126-129  container.start()
StartContainer ==
  \E i \in DOMAIN sessions :
    /\ sessions[i].pc = "start"
    /\ sessions' = [ sessions EXCEPT ![i].pc = "done", ![i].outcome = "started" ]
    /\ UNCHANGED << image, builds, accesses >>
    /\ ConcurrentUnchanged

ConcurrentNext ==
  \/ Inspect
  \/ Rebuild
  \/ Build
  \/ EnsureConfigDir
  \/ WriteClaudeJson
  \/ WriteInitScript
  \/ CreateContainer
  \/ StartContainer

ConcurrentSpec == ConcurrentInit /\ [][ConcurrentNext]_vars

\* --------------------------------------- createSandboxContainer on a config
\* One call of createSandboxContainer for any SandboxConfig: with or without
\* ~/.claude.json, with any list of extracted variables and of preCommands.

EnvVarLists == UNION { [1..n -> { "A=1", "B=2" }] : n \in 0..MaxLines }

SandboxConfigs ==
  [ projectPath : { "projectRoot", "project-sandbox-ts" },
    claudeJson : { Undefined, "buffer" },
    envVars : EnvVarLists,
    preCommands : Commands ]

CreateInit ==
  /\ flags = [noWorktree |-> FALSE, worktreePath |-> Undefined, preserve |-> FALSE]
  /\ host \in { h \in AttachHosts : h.isTTY }
  /\ projectDir = "repo"
  /\ image = host.imageAtStart
  /\ pc = "containerCreate"
  /\ options = SandboxOptions(flags)
  /\ worktreeDir = WorktreePath(Undefined)
  /\ worktrees = {worktreeDir}
  /\ configs = [defined |-> FALSE, bytes |-> 0]
  /\ staged = {}
  /\ container = NoContainer
  /\ sandboxCommands = <<>>
  /\ execLog = <<>>
  /\ execResult = [failed |-> FALSE, command |-> ""]
  /\ gitCmds = <<>>
  /\ child = "none"
  /\ calls = <<>>
  /\ completed = <<>>
  /\ phases = <<>>
  /\ builds = 0
  /\ errorLines = 0
  /\ error = ""
  /\ exitCode = "running"
  /\ ensures = <<>>
  /\ wait = NoWait
  /\ startup = NoStartup
  /\ cmdStatus = <<>>
  /\ capture = NoCapture
  /\ commit = NoCommit
  /\ attach = NoAttach
  /\ envFile = NoEnvFile
  /\ configTree = <<>>
  /\ script = <<>>
  /\ containerConfig \in SandboxConfigs
  /\ settingsBuffer = NoBuffer
  /\ extracted = <<>>
  /\ transformed = NoBuffer
  /\ projectSettings = NoBuffer
  /\ sandboxConfig = NullConfig
  /\ bundle = {}
  /\ creations = <<>>
  /\ sessions = <<>>
  /\ accesses = {}

\* container-manager.ts:25-135  createSandboxContainer(config): the image,
\* the staging under /tmp, docker.createContainer and container.start; any
\* of them may fail and the call then raises
CreateSandboxContainerCall ==
  /\ pc = "containerCreate"
  /\ \E firstOk, secondOk, stageOk, createOk, startOk \in BOOLEAN :
       LET r == BuildBaseImage(host, image, firstOk, secondOk)
           spec == ContainerSpec(containerConfig.projectPath,
                                 containerConfig.claudeJson,
                                 containerConfig.envVars,
                                 containerConfig.preCommands) IN
       /\ image' = r.image
       /\ builds' = builds + r.builds
       /\ ensures' = Append(ensures, EnsureRecord(host, r))
       /\ staged' = IF r.raised \/ ~stageOk THEN staged
                    ELSE StagedPaths(containerConfig.claudeJson,
                                     containerConfig.preCommands)
       /\ container' =
            IF r.raised \/ ~stageOk \/ ~createOk THEN container
            ELSE [ state |-> IF startOk THEN "running" ELSE "created",
                   binds |-> spec.binds, env |-> spec.env ]
       /\ pc' = IF r.raised \/ ~stageOk \/ ~createOk \/ ~startOk
                THEN "raised" ELSE "returned"
  /\ calls' = Append(calls, "containerCreate")
  /\ UNCHANGED << flags, host, projectDir, options, worktreeDir, worktrees,
                  configs, sandboxCommands, execLog, execResult, gitCmds,
                  child, completed, phases, errorLines, error, exitCode, wait,
                  startup, cmdStatus, capture, commit, attach, envFile,
                  configTree, script, units, bundle, creations, sessions, accesses >>

CreateNext == CreateSandboxContainerCall

CreateSpec == CreateInit /\ [][CreateNext]_vars

\* ---------------------------------------- the settings bytes of ~/.claude
\* The bytes of ~/.claude/settings.json, any of the documents below or no
\* JSON at all, handed to getEnvVars, and the statements of createSandbox
\* that extract the environment from what collectAllConfigs returned.

EnvEntryValues == { JStr("1"), JNum("2"), JNull }

EnvEntryLists ==
  { entries \in UNION { [1..n -> [ key : { "A", "B" }, value : EnvEntryValues ]] :
                          n \in 0..MaxLines } :
      \A i, j \in 1..Len(entries) : entries[i].key = entries[j].key => i = j }

EnvValues ==
  { JUndefined, JNull, JStr(""), JStr("ab"), JNum("1"), JNum("0"),
    JArr(<< JStr("x") >>) }
  \cup { JObj(entries) : entries \in EnvEntryLists }

\* a settings document with the given env: the property is left out when
\* env is undefined
EnvDocs ==
  { JObj((IF model THEN << JEntry("model", JStr("opus")) >> ELSE <<>>)
         \o (IF env = JUndefined THEN <<>> ELSE << JEntry("env", env) >>)) :
      env \in EnvValues, model \in BOOLEAN }

\* the hooks of a settings document: an event with one matcher whose hooks
\* are up to MaxItems entries, or a single entry
CommandValues ==
  { JStr("echo hi"), JStr("afplay ding.aiff"), JStr("osascript -e beep"),
    JStr(""), JNum("1"), JArr(<< JStr("afplay") >>) }

HookEntries ==
  { JNull, JStr("x") }
  \cup { JObj((IF command = JUndefined THEN <<>>
               ELSE << JEntry("command", command) >>)
              \o (IF timeout = JUndefined THEN <<>>
                  ELSE << JEntry("timeout", timeout) >>)) :
           command \in CommandValues \cup { JUndefined },
           timeout \in { JUndefined, JNum("5"), JNull } }

HookLists ==
  { JArr(entries) : entries \in UNION { [1..n -> HookEntries] : n \in 0..MaxItems } }

HooksValues ==
  HookEntries
  \cup { JObj(<< JEntry("Stop",
            JArr(<< JObj(<< JEntry("matcher", JStr("x")),
                            JEntry("hooks", list) >>) >>)) >>) :
           list \in HookLists }

HooksDocs ==
  { JObj((IF model THEN << JEntry("model", JStr("opus")) >> ELSE <<>>)
         \o << JEntry("hooks", hooks) >>) :
      hooks \in HooksValues, model \in BOOLEAN }

SettingsBuffers ==
  { Buffer(FALSE, JNull, FALSE) }
  \cup { Buffer(TRUE, doc, pretty) :
           doc \in { JNull, JNum("5"), JStr("ab"), JArr(<<>>) }
                   \cup EnvDocs \cup HooksDocs,
           pretty \in BOOLEAN }

SettingsInit ==
  /\ flags = [noWorktree |-> FALSE, worktreePath |-> Undefined, preserve |-> FALSE]
  /\ host \in { h \in Hosts :
                  /\ h.dockerUp /\ h.gitInstalled /\ h.claudeHome /\ h.isTTY
                  /\ "settings.json" \in h.claudeFiles
                  /\ h.configsBytes = 0 /\ h.projectCommands = <<>>
                  /\ h.entrypointMtime = 1 /\ h.createdIsNumber
                  /\ h.imageAtStart = [exists |-> TRUE, created |-> MaxInstant] }
  /\ projectDir = "repo"
  /\ image = host.imageAtStart
  /\ pc = "collectAllConfigs"
  /\ options = SandboxOptions(flags)
  /\ worktreeDir = WorktreePath(Undefined)
  /\ worktrees = {worktreeDir}
  /\ configs = [defined |-> FALSE, bytes |-> 0]
  /\ staged = {}
  /\ container = NoContainer
  /\ sandboxCommands = <<>>
  /\ execLog = <<>>
  /\ execResult = [failed |-> FALSE, command |-> ""]
  /\ gitCmds = <<>>
  /\ child = "none"
  /\ calls = <<>>
  /\ completed = <<>>
  /\ phases = <<>>
  /\ builds = 0
  /\ errorLines = 0
  /\ error = ""
  /\ exitCode = "running"
  /\ ensures = <<>>
  /\ wait = NoWait
  /\ startup = NoStartup
  /\ cmdStatus = <<>>
  /\ capture = NoCapture
  /\ commit = NoCommit
  /\ attach = NoAttach
  /\ envFile = NoEnvFile
  /\ configTree = <<>>
  /\ script = <<>>
  /\ containerConfig = NoConfig
  /\ settingsBuffer \in SettingsBuffers
  /\ extracted = <<>>
  /\ transformed = NoBuffer
  /\ projectSettings = NoBuffer
  /\ sandboxConfig = NullConfig
  /\ bundle = {}
  /\ creations = <<>>
  /\ sessions = <<>>
  /\ accesses = {}

SettingsUnchanged ==
  UNCHANGED << flags, host, projectDir, image, options, worktreeDir,
               worktrees, staged, container, sandboxCommands, execLog,
               execResult, gitCmds, child, completed, builds, ensures, wait,
               startup, cmdStatus, capture, commit, attach, envFile,
               configTree, script, containerConfig, settingsBuffer, projectSettings,
               sandboxConfig, bundle, creations, sessions, accesses >>

\* claude-config.ts:118-125  a call of getEnvVars with the settings bytes
GetEnvVarsCall ==
  /\ pc = "collectAllConfigs"
  /\ extracted' = GetEnvVars(settingsBuffer)
  /\ pc' = "getEnvVars"
  /\ calls' = Append(calls, "getEnvVars")
  /\ UNCHANGED << configs, transformed, phases, errorLines, error, exitCode >>
  /\ SettingsUnchanged

\* cli.ts:34-39, 76-78  createSandbox takes configs from the collection and
\* extracts the environment: configs is undefined unless ~/.claude has a
\* file of that name, and reading its property raises; a Buffer has no
\* property 'settings.json', so getEnvVars is not called and envVars is []
ExtractEnvVars ==
  /\ pc = "collectAllConfigs"
  /\ configs' = DestructuredConfigs(host)
  /\ IF ~configs'.defined
       THEN /\ pc' = "failed"
            /\ error' = "TypeError: configs is undefined"
            /\ errorLines' = errorLines + 1
            /\ exitCode' = "1"
            /\ phases' = Append(phases, "Failed")
            /\ extracted' = extracted
       ELSE /\ pc' = "imageEnsure"
            /\ extracted' = SessionEnvVars(configs')
            /\ phases' = Append(phases, "ConfigReady")
            /\ UNCHANGED << error, errorLines, exitCode >>
  /\ calls' = Append(calls, "collectAllConfigs")
  /\ UNCHANGED transformed
  /\ SettingsUnchanged

\* claude-config.ts:42-46, 72-86  collectAllConfigs transforms the settings
\* bytes it collected
TransformSettingsCall ==
  /\ pc = "collectAllConfigs"
  /\ transformed' = TransformSettings(settingsBuffer)
  /\ pc' = "transformSettings"
  /\ calls' = Append(calls, "transformSettings")
  /\ UNCHANGED << configs, extracted, phases, errorLines, error, exitCode >>
  /\ SettingsUnchanged

SettingsNext == GetEnvVarsCall \/ ExtractEnvVars \/ TransformSettingsCall

SettingsSpec == SettingsInit /\ [][SettingsNext]_vars

\* --------------------------------------- the startup, statement by statement
\* The container of AttachSpec with its startup taken one statement at a
\* time: the entrypoint, the generated script it runs, and the call of
\* attachTerminal that polls the output meanwhile.

ScriptInit ==
  /\ flags = [noWorktree |-> FALSE, worktreePath |-> Undefined, preserve |-> FALSE]
  /\ host \in AttachHosts
  /\ projectDir = "repo"
  /\ image = host.imageAtStart
  /\ pc = "attachTerminal"
  /\ options = SandboxOptions(flags)
  /\ worktreeDir = WorktreePath(Undefined)
  /\ worktrees = {worktreeDir}
  /\ configs = DestructuredConfigs(host)
  /\ sandboxCommands = <<>>
  /\ execLog = <<>>
  /\ execResult = [failed |-> FALSE, command |-> ""]
  /\ gitCmds = <<>>
  /\ child = "none"
  /\ calls = <<>>
  /\ completed = <<>>
  /\ phases = <<>>
  /\ builds = 0
  /\ errorLines = 0
  /\ error = ""
  /\ exitCode = "running"
  /\ ensures = <<>>
  /\ wait = NoWait
  /\ capture = NoCapture
  /\ \E preCommands \in Commands, version \in EntrypointVersions,
        scriptFile \in BOOLEAN :
       LET spec == ContainerSpec(MountedProjectPath(worktreeDir), Undefined,
                                 <<>>, preCommands) IN
       /\ staged = StagedPaths(Undefined, preCommands)
       /\ container = [state |-> "running", binds |-> spec.binds,
                       env |-> spec.env]
       /\ cmdStatus \in [1..Len(preCommands) -> StartupOutcomes]
       /\ startup =
            [ version |-> version, scriptFile |-> scriptFile,
              commands |-> preCommands,
              lines |-> <<>>,
              emitted |-> 0, marker |-> FALSE, execed |-> FALSE ]
  /\ commit = NoCommit
  /\ attach = NoAttach
  /\ envFile = NoEnvFile
  /\ configTree = <<>>
  /\ script = <<>>
  /\ containerConfig = NoConfig
  /\ settingsBuffer = NoBuffer
  /\ extracted = <<>>
  /\ transformed = NoBuffer
  /\ projectSettings = NoBuffer
  /\ sandboxConfig = NullConfig
  /\ bundle = {}
  /\ creations = <<>>
  /\ sessions = <<>>
  /\ accesses = {}

\* the entrypoint, or the script it runs, executes its next statement; cp
\* into the mounted directory succeeds or not
ScriptStatement ==
  /\ container.state = "running"
  /\ \E cpOk \in BOOLEAN :
       LET statements ==
             EntrypointStatements(startup.version, HasInitScript(container.env),
                                  startup.scriptFile, startup.commands,
                                  cmdStatus, cpOk) IN
       /\ Len(script) < Len(statements)
       /\ LET next == statements[Len(script) + 1] IN
          /\ script' = Append(script, next)
          /\ startup' =
               [startup EXCEPT
                  !.lines = IF next.line # Line("") THEN Append(@, next.line)
                            ELSE @,
                  !.emitted = IF next.line # Line("") THEN @ + 1 ELSE @,
                  !.marker = @ \/ next.op = "touch .init-complete",
                  !.execed = @ \/ next.op = "exec"]
  /\ UNCHANGED << flags, host, projectDir, image, pc, options, worktreeDir,
                  worktrees, configs, staged, container, sandboxCommands,
                  execLog, execResult, gitCmds, child, calls, completed, phases,
                  builds, errorLines, error, exitCode, ensures, wait, cmdStatus,
                  capture, commit, attach, envFile, configTree, units, bundle,
                  creations, sessions, accesses >>

ScriptNext ==
  \/ AttachTerminalCall
  \/ WaitForInitCompletion
  \/ ScriptStatement
  \/ ChildExit

ScriptSpec == ScriptInit /\ [][ScriptNext]_vars

\* ------------------------------------------- the project settings file
\* The session after createSandboxContainer returned: loadConfig on the
\* file .claude-sandbox/settings.json of the mounted project, then the
\* guarded executeCommands of cli.ts:56-58.

\* the file: whether it exists, whether readFile can read it, whether
\* JSON.parse accepts its text, and the value it parses to
SettingsFile(exists, readable, valid, doc) ==
  [ exists |-> exists, readable |-> readable, valid |-> valid, doc |-> doc ]

CommandElements == { JStr("cmd"), JStr(""), JNum("1"), JNull }

CommandElementLists == UNION { [1..n -> CommandElements] : n \in 0..MaxCommands }

CommandsMembers ==
  { JNull, JStr("cmd"), JNum("1"), JObj(<<>>) }
  \cup { JArr(list) : list \in CommandElementLists }

ProjectDocs ==
  { JNull, JStr("cmd"), JNum("1"), JArr(<<>>), JArr(<< JStr("cmd") >>),
    JObj(<<>>), JObj(<< JEntry("other", JNum("1")) >>) }
  \cup { JObj(<< JEntry("commands", c) >>) : c \in CommandsMembers }
  \cup { JObj(<< JEntry("other", JNum("1")), JEntry("commands", c) >>) :
           c \in CommandsMembers }

ProjectSettingsFiles ==
  { SettingsFile(FALSE, FALSE, FALSE, JNull),
    SettingsFile(TRUE, FALSE, FALSE, JNull),
    SettingsFile(TRUE, TRUE, FALSE, JNull) }
  \cup { SettingsFile(TRUE, TRUE, TRUE, doc) : doc \in ProjectDocs }

\* sandbox-config.ts:7-9, 35  SandboxConfigSchema.safeParse(data): an
\* object whose commands, when there, is an array of at least one string;
\* other keys are stripped
\* (SafeParseNoMin: the schema without min(1))
SafeParseNoMin(data) ==
  LET c == Member(data, "commands") IN
  IF data.t # "obj"
    THEN [ success |-> FALSE, defined |-> FALSE, commands |-> <<>> ]
  ELSE IF c.t = "undefined"
    THEN [ success |-> TRUE, defined |-> FALSE, commands |-> <<>> ]
  ELSE IF /\ c.t = "arr"
          /\ \A i \in 1..Len(c.items) : c.items[i].value.t = "str"
    THEN [ success |-> TRUE, defined |-> TRUE,
           commands |-> [ i \in 1..Len(c.items) |-> c.items[i].value.s ] ]
  ELSE [ success |-> FALSE, defined |-> FALSE, commands |-> <<>> ]
SafeParse(data) ==
  LET c == Member(data, "commands") IN
  IF data.t # "obj"
    THEN [ success |-> FALSE, defined |-> FALSE, commands |-> <<>> ]
  ELSE IF c.t = "undefined"
    THEN [ success |-> TRUE, defined |-> FALSE, commands |-> <<>> ]
  ELSE IF /\ c.t = "arr"
          /\ \A i \in 1..Len(c.items) : c.items[i].value.t = "str"
          /\ Len(c.items) >= 1
    THEN [ success |-> TRUE, defined |-> TRUE,
           commands |-> [ i \in 1..Len(c.items) |-> c.items[i].value.s ] ]
  ELSE [ success |-> FALSE, defined |-> FALSE, commands |-> <<>> ]

\* sandbox-config.ts:29-49  the body of the try: readFile and JSON.parse
\* throw, a document the schema rejects gives null
LoadConfigTry(file) ==
  IF ~file.readable
    THEN [ threw |-> "Error", null |-> TRUE, defined |-> FALSE, commands |-> <<>> ]
  ELSE IF ~file.valid
    THEN [ threw |-> "SyntaxError", null |-> TRUE, defined |-> FALSE,
           commands |-> <<>> ]
  ELSE LET validatedConfig == SafeParse(file.doc) IN
       [ threw |-> "", null |-> ~validatedConfig.success,
         defined |-> validatedConfig.defined,
         commands |-> validatedConfig.commands ]

\* sandbox-config.ts:22-60  loadConfig: null without the file; the catch
\* turns whatever the body threw into null
LoadConfig(file) ==
  IF ~file.exists
    THEN [ called |-> TRUE, null |-> TRUE, defined |-> FALSE, commands |-> <<>>,
           raised |-> FALSE ]
  ELSE LET r == LoadConfigTry(file) IN
       [ called |-> TRUE, null |-> r.null, defined |-> r.defined,
         commands |-> r.commands, raised |-> FALSE ]

LoadInit ==
  /\ flags = [noWorktree |-> FALSE, worktreePath |-> Undefined, preserve |-> FALSE]
  /\ host \in { h \in Hosts :
                  /\ h.dockerUp /\ h.gitInstalled /\ h.claudeHome /\ h.isTTY
                  /\ h.claudeFiles = {"settings.json", "configs"}
                  /\ h.configsBytes = 0 /\ h.projectCommands = <<>>
                  /\ h.entrypointMtime = 1 /\ h.createdIsNumber
                  /\ h.imageAtStart = [exists |-> TRUE, created |-> MaxInstant] }
  /\ projectDir = "repo"
  /\ image = host.imageAtStart
  /\ pc = "loadConfig"
  /\ options = SandboxOptions(flags)
  /\ worktreeDir = WorktreePath(Undefined)
  /\ worktrees = {worktreeDir}
  /\ configs = DestructuredConfigs(host)
  /\ staged = {}
  /\ container = [NoContainer EXCEPT !.state = "running"]
  /\ sandboxCommands = <<>>
  /\ execLog = <<>>
  /\ execResult = [failed |-> FALSE, command |-> ""]
  /\ gitCmds = <<>>
  /\ child = "none"
  /\ calls = SubSeq(Pipeline, 1, 6)
  /\ completed = SubSeq(Pipeline, 1, 6)
  /\ phases = << "Validating", "ImageReady", "ContainerRunning" >>
  /\ builds = 0
  /\ errorLines = 0
  /\ error = ""
  /\ exitCode = "running"
  /\ ensures = <<>>
  /\ wait = NoWait
  /\ startup = NoStartup
  /\ cmdStatus = <<>>
  /\ capture = NoCapture
  /\ commit = NoCommit
  /\ attach = NoAttach
  /\ envFile = NoEnvFile
  /\ configTree = <<>>
  /\ script = <<>>
  /\ containerConfig = NoConfig
  /\ settingsBuffer = NoBuffer
  /\ extracted = <<>>
  /\ transformed = NoBuffer
  /\ projectSettings \in ProjectSettingsFiles
  /\ sandboxConfig = NullConfig
  /\ bundle = {}
  /\ creations = <<>>
  /\ sessions = <<>>
  /\ accesses = {}

LoadUnchanged ==
  UNCHANGED << flags, host, projectDir, image, options, worktreeDir,
               worktrees, configs, staged, container, gitCmds, child, builds,
               ensures, wait, startup, cmdStatus, capture, commit, attach,
               envFile, configTree, script, containerConfig, settingsBuffer,
               extracted, transformed, projectSettings, bundle, creations,
               sessions, accesses >>

\* cli.ts:53-54  await sandboxConfigManager.loadConfig()
LoadConfigCall ==
  /\ pc = "loadConfig"
  /\ sandboxConfig' = LoadConfig(projectSettings)
  /\ IF sandboxConfig'.raised
       THEN /\ CatchHandler(phases, "loadConfig failed")
            /\ calls' = Append(calls, "loadConfig")
       ELSE /\ pc' = "executeCommands"
            /\ UNCHANGED << calls, completed, phases, errorLines, error,
                            exitCode >>
  /\ UNCHANGED << sandboxCommands, execLog, execResult >>
  /\ LoadUnchanged

\* cli.ts:56-58  executeCommands when the configuration has a non-empty
\* commands list; the value it returns is dropped
ExecuteLoadedCommands ==
  /\ pc = "executeCommands"
  /\ IF ~sandboxConfig.null /\ sandboxConfig.defined
        /\ Len(sandboxConfig.commands) > 0
       THEN /\ sandboxCommands' = sandboxConfig.commands
            /\ calls' = Append(calls, "executeCommands")
            /\ \E failAt \in 0..Len(sandboxCommands') :
                 LET r == ExecuteCommands(sandboxCommands', failAt) IN
                 /\ execLog' = r.ran
                 /\ execResult' = [failed |-> r.failed, command |-> r.command]
            /\ Return("executeCommands", Append(phases, "CommandsExecuted"))
       ELSE /\ Skip("executeCommands")
            /\ UNCHANGED << sandboxCommands, execLog, execResult >>
  /\ UNCHANGED sandboxConfig
  /\ LoadUnchanged

LoadNext ==
  \/ LoadConfigCall
  \/ ExecuteLoadedCommands

LoadSpec == LoadInit /\ [][LoadNext]_vars

\* ------------------------------------------------------------- properties

Range(seq) == { seq[i] : i \in 1..Len(seq) }

Terminal == pc \in {"done", "failed"}

\* the order of the steps as the specification fixes it
StepOrder ==
  << "validateEnvironment", "worktreeCreate", "collectAllConfigs",
     "imageEnsure", "containerCreate", "containerStart", "executeCommands",
     "attachTerminal", "commitChanges", "stopContainer", "removeContainer" >>

Rank(step) == CHOOSE i \in 1..Len(StepOrder) : StepOrder[i] = step

\* the steps of the order that the session's options and inputs call for
Applicable(step) ==
  CASE step = "worktreeCreate" -> options.worktree
    [] step = "executeCommands" -> Len(host.projectCommands) > 0
    [] step = "commitChanges" -> worktreeDir # Undefined
    [] step \in {"stopContainer", "removeContainer"} -> ~options.preserveContainer
    [] OTHER -> TRUE

\* C1: the steps of createSandbox are invoked in the fixed order, each at
\* most once and only when its condition holds; a step is invoked only after
\* every earlier step that applies has returned without error, and at most
\* one step is in progress at any time.
C1_FixedOrder ==
  /\ \A i, j \in 1..Len(calls) : i < j => Rank(calls[i]) < Rank(calls[j])
  /\ \A i \in 1..Len(calls) :
       /\ Applicable(calls[i])
       /\ \A e \in Range(StepOrder) :
            (Rank(e) < Rank(calls[i]) /\ Applicable(e)) =>
              (e \in Range(calls) /\ e \in Range(completed))
  /\ Len(completed) <= Len(calls)
  /\ \A i \in 1..Len(completed) : completed[i] = calls[i]
  /\ Len(calls) - Len(completed) <= 1
  /\ (child = "running") =>
       (calls[Len(calls)] = "attachTerminal" /\ pc = "attached")

\* C1 witness: a session that ran all eleven steps and completed
C1_Witness == pc = "done" /\ calls = StepOrder /\ completed = StepOrder

\* C2: a step that raises ends the session in Failed: the catch sets exit
\* status 1, starts no further step, and leaves the worktree and the
\* container as they were (no stop, no remove, no cleanup); nothing happens
\* after Failed.
C2_FailureIsFinal ==
  [][ /\ (pc' = "failed" /\ pc # "failed") =>
           /\ exitCode' = "1"
           /\ worktrees' = worktrees
           /\ container' = container
           /\ completed' = completed
           /\ Len(calls') = Len(completed') + 1
           /\ \A i \in 1..Len(calls) : calls'[i] = calls[i]
      /\ (Len(calls') > Len(completed') /\ pc' # "attached") => pc' = "failed"
      /\ pc # "failed" ]_vars

\* C2 witness: commitChanges raised while the container was running, and the
\* session failed with the container still running
C2_Witness ==
  /\ pc = "failed"
  /\ calls[Len(calls)] = "commitChanges"
  /\ container.state = "running"
  /\ exitCode = "1"

\* C3: no path of createSandbox removes a worktree: git worktree remove is
\* never invoked and the worktree that was created exists in every state
\* that follows, the terminal states included.
C3_WorktreeKept ==
  /\ \A i \in 1..Len(gitCmds) : gitCmds[i] # "worktree remove"
  /\ (worktreeDir # Undefined) => (worktreeDir \in worktrees)
  /\ ("worktreeCreate" \in Range(completed)) => (worktreeDir \in worktrees)

\* C3 witness: a session that failed after its worktree was created
C3_Witness ==
  /\ pc = "failed"
  /\ "worktreeCreate" \in Range(completed)
  /\ worktreeDir \in worktrees

\* C4: with --preserve-container neither stopContainer nor removeContainer is
\* invoked, a completed session leaves the container running, and
\* commitChanges still ran after attach when a worktree was created; without
\* it a completed session has stopped and then removed the container.
C4_Preserve ==
  /\ flags.preserve =>
       /\ "stopContainer" \notin Range(calls)
       /\ "removeContainer" \notin Range(calls)
       /\ (pc \in {"sessionCompleted", "done"}) =>
            /\ container.state = "running"
            /\ (worktreeDir # Undefined) =>
                 /\ "commitChanges" \in Range(completed)
                 /\ Rank("attachTerminal") < Rank("commitChanges")
                 /\ \E i, j \in 1..Len(calls) :
                      /\ i < j
                      /\ calls[i] = "attachTerminal"
                      /\ calls[j] = "commitChanges"
  /\ (~flags.preserve /\ pc \in {"sessionCompleted", "done"}) =>
       /\ container.state = "removed"
       /\ \E i \in 1..Len(completed) - 1 :
            /\ completed[i] = "stopContainer"
            /\ completed[i + 1] = "removeContainer"

\* C4 witness: a preserved session completed after committing the worktree
C4_Witness ==
  /\ pc = "done"
  /\ flags.preserve
  /\ "commitChanges" \in Range(completed)
  /\ container.state = "running"

\* the errors of createSandbox that report a failed external call
ExternalFailures ==
  { "Failed to create git worktree", "docker build failed", "staging failed",
    "createContainer failed", "container start failed",
    "Failed to commit changes", "container stop failed",
    "container remove failed" }

\* the inputs of the first end-to-end scenario: a valid repository, worktree
\* enabled, no project commands, an image newer than the entrypoint, no
\* --preserve-container, and a host that passes validation
HappyPathInputs ==
  /\ ~flags.noWorktree
  /\ ~flags.preserve
  /\ host.dockerUp /\ host.gitInstalled
  /\ host.claudeHome /\ "settings.json" \in host.claudeFiles
  /\ Len(host.projectCommands) = 0
  /\ projectDir = "repo"
  /\ host.imageAtStart.exists
  /\ host.imageAtStart.created >= host.entrypointMtime

\* C5: on the inputs of the first end-to-end scenario and with no failing
\* external call, the session ends completed, having passed through
\* Validating, WorktreeReady, ConfigReady, ImageReady, ContainerRunning,
\* Attached, Committed, TornDown in that order, with no image build, no exit
\* status 1, and the worktree still on disk.
C5_HappyPath ==
  (HappyPathInputs /\ Terminal /\ error \notin ExternalFailures) =>
    /\ pc = "done"
    /\ phases = << "Validating", "WorktreeReady", "ConfigReady", "ImageReady",
                   "ContainerRunning", "Attached", "Committed", "TornDown" >>
    /\ builds = 0
    /\ exitCode # "1"
    /\ worktreeDir \in worktrees

\* C6: when the project root has no .git entry, no git worktree command is
\* invoked, create raises the not-a-repository error, no image build,
\* container create or container start is invoked, and the session ends
\* Failed with exit status 1.
C6_NotARepository ==
  (projectDir # "repo") =>
    /\ "worktree add" \notin Range(gitCmds)
    /\ worktrees = {}
    /\ Range(calls) \cap {"imageEnsure", "containerCreate", "containerStart"} = {}
    /\ builds = 0
    /\ container.state = "none"
    /\ pc # "done"
    /\ ("worktreeCreate" \in Range(calls)) =>
         /\ pc = "failed"
         /\ error = "Project is not a git repository"
         /\ exitCode = "1"

\* C6 witness: create was invoked on a project root without .git and raised
C6_Witness ==
  /\ pc = "failed"
  /\ projectDir # "repo"
  /\ calls[Len(calls)] = "worktreeCreate"
  /\ error = "Project is not a git repository"

\* C7: with --no-worktree GitWorktreeManager.create and commitChanges are
\* never invoked and the project root itself is mounted at /workspace.
C7_NoWorktreeSkips ==
  flags.noWorktree =>
    /\ "worktreeCreate" \notin Range(calls)
    /\ "commitChanges" \notin Range(calls)
    /\ (container.state # "none") => (container.binds[1].src = "projectRoot")

\* C8: the bind mounted read-write at /workspace is the worktree's path
\* whenever a worktree was created, and then no bind has the project root as
\* its source; the project root is the source only without a worktree.
C8_WorktreeIsMounted ==
  (container.state # "none") =>
    /\ container.binds[1].dst = "/workspace"
    /\ container.binds[1].mode = "rw"
    /\ \A i \in 2..Len(container.binds) : container.binds[i].dst # "/workspace"
    /\ (worktreeDir # Undefined) =>
         /\ container.binds[1].src = worktreeDir
         /\ \A i \in 1..Len(container.binds) :
              container.binds[i].src # "projectRoot"
    /\ (container.binds[1].src = "projectRoot") => (worktreeDir = Undefined)

\* C8 witness: a running container of a session that created a worktree
C8_Witness ==
  /\ container.state = "running"
  /\ worktreeDir # Undefined
  /\ worktreeDir \in worktrees

\* C9: when a check of validateEnvironment fails, the step raises the
\* aggregated validation error and nothing was changed before it: no
\* directory created on the filesystem, no worktree, no container.
C9_ValidationBeforeMutation ==
  [][ (pc = "validateEnvironment" /\ Len(ValidationErrors(host)) > 0) =>
        /\ pc' = "failed"
        /\ error' = "Environment validation failed"
        /\ projectDir' = projectDir
        /\ worktrees' = worktrees
        /\ staged' = staged
        /\ container' = container ]_vars

\* C10: declared setup commands are handed to container creation: the
\* container has the setup script and the capture directory mounted and
\* INIT_SCRIPT in its environment, and the commands are not run by a
\* separate exec call after the start.
C10_SetupByStartup ==
  (Len(host.projectCommands) > 0) =>
    /\ (container.state # "none") =>
         /\ \E i \in 1..Len(container.env) :
              container.env[i] = "INIT_SCRIPT=/home/claude/init.sh"
         /\ \E i \in 1..Len(container.binds) :
              container.binds[i].dst = "/home/claude/init.sh"
         /\ \E i \in 1..Len(container.binds) :
              container.binds[i].dst = "/home/claude/.sandbox-env.d"
    /\ "executeCommands" \notin Range(calls)
    /\ execLog = <<>>

\* the container output a log retrieval can see
Logs == SubSeq(startup.lines, 1, startup.emitted)

\* C11: the interactive process is spawned only after the readiness wait has
\* returned (a poll saw a sentinel, or the maximum wait elapsed).
C11_SpawnAfterWait ==
  child # "none" => wait.state = "returned"

C13_SentinelAndMarker ==
  startup.execed =>
    /\ startup.marker
    /\ Cardinality({ k \in 1..startup.emitted :
                       startup.lines[k].text \in Sentinels }) = 1

\* the position of the first command that fails, 0 when none does
FirstFailure(status) ==
  IF \A k \in DOMAIN status : status[k].end = "ok" THEN 0
  ELSE CHOOSE k \in DOMAIN status :
         /\ status[k].end # "ok"
         /\ \A j \in 1..(k - 1) : status[j].end = "ok"

\* C14: executeCommands runs the commands in list order up to and including
\* the first that fails and none after it; it returns the command, a
\* non-zero exit code and the captured output of exactly that command, and
\* null if and only if every command succeeded.
C14_FirstFailure ==
  pc = "returned" =>
    LET f == FirstFailure(cmdStatus) IN
    /\ execLog = SubSeq(sandboxCommands, 1,
                        IF f = 0 THEN Len(sandboxCommands) ELSE f)
    /\ execResult.isNull <=> f = 0
    /\ f # 0 =>
         /\ execResult.command = sandboxCommands[f]
         /\ execResult.exitCode # 0
         /\ cmdStatus[f].end \in {"exit1", "exit2"} =>
              execResult.exitCode = ExitStatus(cmdStatus[f].end)
         /\ execResult.output \in {cmdStatus[f].stdout, cmdStatus[f].stderr}
         /\ cmdStatus[f].stdout # "" => execResult.output = cmdStatus[f].stdout

C14_Witness ==
  /\ pc = "returned"
  /\ Len(sandboxCommands) = MaxCommands
  /\ FirstFailure(cmdStatus) = 1
  /\ cmdStatus[2].end # "ok"
  /\ sandboxCommands[1] # sandboxCommands[2]
  /\ execLog = << sandboxCommands[1] >>
  /\ ~execResult.isNull

\* C15: a failing project command never moves the session to Failed: the
\* step that runs the commands always hands over to attach with no error,
\* and a session in which a command failed still performs attach, commit
\* and teardown as its options call for; only those later steps can fail it.
C15_CommandFailureNotFatal ==
  /\ [][pc = "executeCommands" =>
          /\ pc' = "attachTerminal"
          /\ error' = "" /\ exitCode' = "running" /\ errorLines' = errorLines
          /\ "Failed" \notin Range(phases')]_vars
  /\ [](execResult.failed =>
          /\ pc = "failed" =>
               error \in {"Failed to commit changes", "container stop failed",
                          "container remove failed"}
          /\ pc = "done" =>
               \A step \in {"attachTerminal", "commitChanges", "stopContainer",
                             "removeContainer"} :
                 Applicable(step) => step \in Range(completed))

C15_Witness ==
  /\ execResult.failed
  /\ pc = "done"
  /\ {"attachTerminal", "commitChanges", "stopContainer", "removeContainer"}
       \subseteq Range(completed)

\* C16: buildBaseImage builds when the image is absent; when it exists it
\* builds if and only if the entrypoint's modification time is strictly
\* greater than the creation time the image inspection reports.
C16_BuildIffNewer ==
  Len(ensures) >= 1 =>
    (ensures[1].builds > 0 <=>
       \/ ~host.imageAtStart.exists
       \/ ensures[1].mtime > host.imageAtStart.created)

\* C17: two successive buildBaseImage calls with no change of the entrypoint
\* in between and no failing build perform at most one build in total, and
\* the second performs none.
C17_Idempotent ==
  ( /\ Len(ensures) >= 2
    /\ ensures[1].mtime = ensures[2].mtime
    /\ ensures[1].failed = 0 /\ ensures[2].failed = 0 ) =>
    /\ ensures[2].builds = 0
    /\ ensures[1].builds + ensures[2].builds <= 1

\* C18: if an image build fails, the session ends Failed with nothing
\* staged, no container create or start invoked and no container.
C18_BuildFailureAborts ==
  (\E k \in 1..Len(ensures) : ensures[k].failed > 0) =>
    /\ pc = "failed"
    /\ staged = {}
    /\ container.state = "none"
    /\ Range(calls) \cap {"containerCreate", "containerStart"} = {}

\* C19: within one session image build, container create, container start
\* and commit are each invoked at most once, and a failed build is fatal
\* and not followed by a second build.
C19_NoRetry ==
  /\ builds <= 1
  /\ \A step \in {"containerCreate", "containerStart", "commitChanges"} :
       Cardinality({ k \in 1..Len(calls) : calls[k] = step }) <= 1
  /\ \A k \in 1..Len(ensures) : ensures[k].failed > 0 => pc = "failed"

\* the variable entries of the written file, and the lines of the after
\* snapshot that are not in the before snapshot and on no denied key
VariableEntries == Range(capture.file) \ { EmptyLine }

NewLines ==
  { line \in Range(capture.after) :
      line \notin Range(capture.before) /\ line.key \notin Range(Denylist) }

NoRepeats(lines) ==
  \A i, j \in 1..Len(lines) : lines[i] = lines[j] => i = j

RECURSIVE EnsureErrorLines(_)
EnsureErrorLines(k) ==
  IF k = 0 THEN 0 ELSE ensures[k].errorLines + EnsureErrorLines(k - 1)

TotalErrorLines == errorLines + EnsureErrorLines(Len(ensures))

\* C25: a session that fails has emitted exactly one error line and ends
\* with exit status 1; a session whose steps all succeed emits none and
\* never ends with status 1; there is no third outcome.
C25_OneErrorLine ==
  /\ pc = "failed" => TotalErrorLines = 1 /\ exitCode = "1"
  /\ pc = "done" => TotalErrorLines = 0 /\ exitCode = "0"
  /\ exitCode # "running" => pc \in {"failed", "done"}
  /\ exitCode = "1" <=> pc = "failed"

\* C26: without an interactive terminal attach returns without spawning the
\* interactive process, and the container is left running: the session
\* does not stop or remove it.
C26_NoTerminalLeavesRunning ==
  (~host.isTTY /\ "attachTerminal" \in Range(completed)) =>
    /\ child = "none"
    /\ container.state = "running"
    /\ Range(calls) \cap {"stopContainer", "removeContainer"} = {}

\* the git commands of commitChanges, in order
GitOfCommit ==
  LET OfCommit(c) == c \in {"status", "add", "commit"} IN
  SelectSeq(gitCmds, OfCommit)

CommitFailed == pc = "failed" /\ error = "Failed to commit changes"

\* C28: commitChanges first queries the status; with a clean copy it neither
\* invokes the strategy nor stages nor commits; with pending changes it
\* invokes the strategy, after whose success it neither stages nor commits
\* and after whose fallback it stages and then commits, once each; a failing
\* status query, strategy, stage or commit surfaces as the commit failure,
\* after which no further git command runs.
C28_CommitProtocol ==
  "commitChanges" \in Range(calls) =>
    /\ commit.status = "fails" =>
         GitOfCommit = << "status" >> /\ commit.strategy = "" /\ CommitFailed
    /\ commit.status = "clean" =>
         GitOfCommit = << "status" >> /\ commit.strategy = "" /\ ~CommitFailed
    /\ commit.status = "dirty" =>
         /\ commit.strategy \in {"success", "fallback", "throws"}
         /\ commit.strategy = "success" =>
              GitOfCommit = << "status" >> /\ ~CommitFailed
         /\ commit.strategy = "throws" =>
              GitOfCommit = << "status" >> /\ CommitFailed
         /\ commit.strategy = "fallback" =>
              /\ commit.add = "fails" =>
                   GitOfCommit = << "status", "add" >> /\ CommitFailed
              /\ commit.add = "ok" =>
                   /\ GitOfCommit = << "status", "add", "commit" >>
                   /\ CommitFailed <=> commit.commit = "fails"

C28_Witness ==
  /\ pc = "done"
  /\ commit.status = "dirty"
  /\ commit.strategy = "fallback"
  /\ GitOfCommit = << "status", "add", "commit" >>

\* C30: while the interactive process runs, attach has not returned and
\* neither commitChanges nor teardown has been started; once it has exited,
\* attach has returned the exit status of that process.
C30_BlocksAndReturnsStatus ==
  /\ child = "running" =>
       /\ pc = "attached"
       /\ attach.returned = ""
       /\ Range(calls) \cap {"commitChanges", "stopContainer",
                              "removeContainer"} = {}
  /\ child = "exited" => attach.returned = attach.status

\* the entries of the capture file that the claim lets through, in order
Passes(line) ==
  /\ ~line.blank /\ ~line.hash /\ line.hasEq
  /\ line.key # <<>>
  /\ Range(line.key) \cap { "PATH", "INSTALL", "HOME" } # {}

ExpectedOverrides ==
  LET passing == SelectSeq(envFile.lines, Passes) IN
  [ k \in 1..Len(passing) |->
      [ key |-> passing[k].key, value |-> passing[k].value ] ]

\* C29: in an interactive attach the overrides passed to the interactive
\* process are exactly the KEY=VALUE entries of the capture file whose key is
\* non-empty and contains PATH, INSTALL or HOME, blank lines, '#' lines and
\* lines without '=' being ignored; with the file absent or unreadable no
\* override is passed, and the process is spawned all the same.
C29_Overrides ==
  /\ child # "none" =>
       attach.overrides = IF envFile.exists /\ envFile.readable
                          THEN ExpectedOverrides ELSE <<>>
  /\ (host.isTTY /\ "attachTerminal" \in Range(calls)) => child # "none"

C29_Witness ==
  /\ child = "running"
  /\ Len(envFile.lines) = MaxLines
  /\ Len(attach.overrides) = 1
  /\ \E k \in 1..Len(envFile.lines) :
       envFile.lines[k].hasEq /\ ~envFile.lines[k].hash /\ ~Passes(envFile.lines[k])

\* the root-relative paths of the tree, and what is found at one when only
\* directories are descended into
TreePaths == UNION { [1..n -> ConfigNames] : n \in 1..MaxDepth }

RECURSIVE KindAt(_, _)
KindAt(listing, path) ==
  IF Len(path) = 1 THEN listing[path[1]].kind
  ELSE IF listing[path[1]].kind = "dir"
    THEN KindAt(listing[path[1]].entries, Tail(path))
  ELSE "absent"

\* C21: the keys of the bundle collectAllConfigs returns are exactly the
\* root-relative paths of the regular files under the configuration root;
\* directories and symbolic links give no key, links are not followed, and
\* no key has a parent-directory segment.
C21_KeysAreRegularFiles ==
  pc = "returned" =>
    /\ bundle = { path \in TreePaths : KindAt(configTree, path) = "file" }
    /\ \A key \in bundle : key # <<>> /\ ".." \notin Range(key)

C21_Witness ==
  /\ pc = "returned"
  /\ \E key \in bundle : Len(key) = MaxDepth
  /\ \E key \in bundle : Len(key) = 1
  /\ \E n \in ConfigNames :
       /\ configTree[n].kind = "dir"
       /\ \E m \in ConfigNames : configTree[n].entries[m].kind = "symlink"

\* the calls of create that reached git worktree add
Invoked == { i \in 1..Len(creations) : creations[i].git }

C23_PathsDifferBranchesDiffer ==
  \A i, j \in Invoked :
    ( /\ creations[i].project = creations[j].project
      /\ creations[i].path # creations[j].path )
    => creations[i].branch # creations[j].branch

\* C27: create puts the working copy at the custom path resolved to an
\* absolute path when one is given and at <parent>/<name>-sandbox-<timestamp>
\* otherwise, and returns the absolute path it passed to git.
C27_AtCustomPath ==
  \A i \in Invoked :
    LET c == creations[i] IN
    /\ c.path.abs
    /\ c.ok => c.returned = c.path
    /\ c.path =
         IF c.customPath # NoPath THEN Resolve(c.cwd, c.customPath)
         ELSE Join(Dirname(c.project),
                   Segment(Basename(c.project).name, TRUE, c.timestamp))

\* two sessions whose names differ
DifferentNames == Len(sessions) = 2 /\ sessions[1].name # sessions[2].name

\* a resource both sessions accessed, one of them at least writing it
Contended ==
  { a.resource : a \in { x \in accesses :
      \E y \in accesses : /\ y.by # x.by /\ y.resource = x.resource
                           /\ "write" \in { x.mode, y.mode } } }

BindsTo(dst) == { i \in 1..Len(container.binds) : container.binds[i].dst = dst }

\* C31: every container specification createSandboxContainer builds has the
\* workspace mount, the configuration mount, and an environment that starts
\* with WORKSPACE_PATH and CLAUDE_CONFIG_PATH followed by the extracted
\* variables in order; it has the ~/.claude.json mount exactly when a
\* claudeJson was collected, and the init script mount, the capture directory
\* mount and INIT_SCRIPT all three when preCommands is non-empty and none of
\* them otherwise.
C31_ContainerSpecification ==
  container.state # "none" =>
    LET n == Len(containerConfig.envVars)
        pre == Len(containerConfig.preCommands) > 0 IN
    /\ \E i \in BindsTo("/workspace") :
         /\ container.binds[i].src = containerConfig.projectPath
         /\ container.binds[i].mode = "rw"
    /\ \E i \in BindsTo("/home/claude/.claude") : container.binds[i].mode = "rw"
    /\ Len(container.env) >= 2 + n
    /\ SubSeq(container.env, 1, 2)
         = << "WORKSPACE_PATH=/workspace", "CLAUDE_CONFIG_PATH=/home/claude/.claude" >>
    /\ SubSeq(container.env, 3, 2 + n) = containerConfig.envVars
    /\ BindsTo("/home/claude/.claude.json") # {}
         <=> containerConfig.claudeJson # Undefined
    /\ BindsTo("/home/claude/init.sh") # {} <=> pre
    /\ BindsTo("/home/claude/.sandbox-env.d") # {} <=> pre
    /\ "INIT_SCRIPT=/home/claude/init.sh" \in Range(container.env) <=> pre
    /\ Len(container.env) = 2 + n + (IF pre THEN 1 ELSE 0)

C31_Witness ==
  /\ container.state = "running"
  /\ containerConfig.claudeJson # Undefined
  /\ Len(containerConfig.envVars) = MaxLines
  /\ Len(containerConfig.preCommands) > 0
  /\ Len(container.binds) = 5
  /\ container.env[Len(container.env)] = "INIT_SCRIPT=/home/claude/init.sh"

\* how many times a step was invoked
Invocations(step) == Cardinality({ i \in 1..Len(calls) : calls[i] = step })

\* C32: teardown is stop then remove. removeContainer is invoked only after
\* stopContainer returned; when stopContainer fails removeContainer is never
\* invoked and the session fails; when removeContainer fails the session
\* fails; neither is invoked a second time.
C32_StopThenRemove ==
  /\ "removeContainer" \in Range(calls) => "stopContainer" \in Range(completed)
  /\ error = "container stop failed" =>
       /\ "removeContainer" \notin Range(calls)
       /\ pc = "failed" /\ exitCode = "1"
       /\ container.state \notin { "stopped", "removed" }
  /\ error = "container remove failed" =>
       /\ pc = "failed" /\ exitCode = "1"
       /\ container.state = "stopped"
  /\ Invocations("stopContainer") <= 1
  /\ Invocations("removeContainer") <= 1

C32_Witness ==
  /\ pc = "failed"
  /\ error = "container remove failed"
  /\ "stopContainer" \in Range(completed)
  /\ Invocations("removeContainer") = 1

\* the env mapping of the settings document, an object, when it has one
HasEnvMapping ==
  /\ settingsBuffer.valid /\ settingsBuffer.doc.t = "obj"
  /\ Member(settingsBuffer.doc, "env").t = "obj"

\* C33: getEnvVars never raises: it returns one KEY=VALUE string per key of
\* the env mapping of the document, and the empty list when the bytes do not
\* parse or the document has no env mapping; the extraction of the
\* environment never moves the session to Failed.
C33_BestEffortEnvVars ==
  /\ pc = "getEnvVars" =>
       IF HasEnvMapping
         THEN LET env == Member(settingsBuffer.doc, "env").items IN
              /\ Len(extracted) = Len(env)
              /\ \A i \in 1..Len(env) :
                   extracted[i] = env[i].key \o "=" \o TemplateText(env[i].value)
         ELSE extracted = <<>>
  /\ ~(pc = "failed" /\ calls = << "collectAllConfigs" >>)

\* a document the transform can be applied to: no object of its hooks has a
\* command that is neither text nor a list
RECURSIVE Transformable(_)
Transformable(value) ==
  IF value.t \notin { "arr", "obj" } THEN TRUE
  ELSE /\ value.t = "obj" =>
            LET command == Member(value, "command") IN
            Truthy(command) => command.t \in { "str", "arr" }
       /\ \A i \in 1..Len(value.items) : Transformable(value.items[i].value)

\* a command entry whose command names afplay or osascript
MacOnlyEntry(value) ==
  /\ value.t = "obj"
  /\ Truthy(Member(value, "command"))
  /\ Member(value, "command").t \in { "str", "arr" }
  /\ MacOnly(Member(value, "command"))

\* a value without the macOS-only command entries below it: such an entry
\* leaves its object, and leaves null at its position of an array or as the
\* hooks themselves; everything else stays
RECURSIVE WithoutMacOnly(_)
WithoutMacOnly(value) ==
  IF MacOnlyEntry(value) THEN JNull
  ELSE IF value.t = "arr"
    THEN JArr([ i \in 1..Len(value.items) |->
                  WithoutMacOnly(value.items[i].value) ])
  ELSE IF value.t = "obj"
    THEN LET kept(entry) == ~MacOnlyEntry(entry.value) IN
         JObj([ i \in 1..Len(SelectSeq(value.items, kept)) |->
                  JEntry(SelectSeq(value.items, kept)[i].key,
                         WithoutMacOnly(SelectSeq(value.items, kept)[i].value)) ])
  ELSE value

\* the settings document has hooks
HasHooks ==
  /\ settingsBuffer.valid /\ settingsBuffer.doc.t = "obj"
  /\ Truthy(Member(settingsBuffer.doc, "hooks"))

\* C34: for every settings document with hooks the transform removes exactly
\* the command entries whose command contains afplay or osascript and
\* leaves every other key, value and array position as it was; bytes that
\* cannot be parsed or transformed are returned unchanged.
C34_OnlyMacOnlyRemoved ==
  pc = "transformSettings" =>
    /\ (HasHooks /\ Transformable(Member(settingsBuffer.doc, "hooks"))) =>
         /\ transformed.valid
         /\ transformed.doc =
              WithMember(settingsBuffer.doc, "hooks",
                         WithoutMacOnly(Member(settingsBuffer.doc, "hooks")))
    /\ (~settingsBuffer.valid
        \/ (HasHooks /\ ~Transformable(Member(settingsBuffer.doc, "hooks")))) =>
         transformed = settingsBuffer

\* the lines the executed statements wrote
RECURSIVE LinesOf(_)
LinesOf(statements) ==
  IF statements = <<>> THEN <<>>
  ELSE (IF Head(statements).line = Line("") THEN <<>>
        ELSE << Head(statements).line >>) \o LinesOf(Tail(statements))

\* the positions of the executed statements of one kind
At(op) == { m \in DOMAIN script : script[m].op = op }

\* the statements write the lines EntrypointRun gives, in its order
StatementsWriteTheLines ==
  LET lines == EntrypointRun(startup.version, HasInitScript(container.env),
                             startup.scriptFile, startup.commands,
                             cmdStatus).lines IN
  /\ startup.lines = LinesOf(script)
  /\ startup.emitted = Len(startup.lines)
  /\ startup.emitted <= Len(lines)
  /\ startup.lines = SubSeq(lines, 1, startup.emitted)

\* the startup has come to its end with the lines, the marker and the main
\* command EntrypointRun gives
StartupComplete ==
  LET run == EntrypointRun(startup.version, HasInitScript(container.env),
                           startup.scriptFile, startup.commands, cmdStatus) IN
  /\ startup.lines = run.lines
  /\ startup.marker = run.marker
  /\ startup.execed = run.execed

StatementsEndAsEntrypointRun ==
  (startup.execed \/ \E m \in At("command") : ~script[m].ok) => StartupComplete

\* the positions at which the k-th setup command was run
Ran(k) == { m \in At("command") : script[m].i = k }

\* the positions of the statements that wrote the given line
Wrote(text) == { m \in At("echo") : script[m].line.text = text }

Before(earlier, later) == \A m \in later : \E l \in earlier : l < m

\* C35: the generated script takes the before-snapshot first, then runs each
\* declared command once and in declared order, each immediately after its
\* progress line numbered i/n, then takes the after-snapshot, writes the
\* capture file, copies it to the mounted directory and only then writes its
\* completion line
C35_ScriptOrder ==
  LET n == Len(startup.commands) IN
  /\ \A m \in Wrote("[ENTRYPOINT] Executing init script") :
       m < Len(script) => script[m + 1] = Silent("env > sandbox-env-before.txt")
  /\ \A m \in At("env > sandbox-env-before.txt") :
       m > 1 /\ script[m - 1] = Echo(Line("[ENTRYPOINT] Executing init script"))
  /\ Cardinality(At("env > sandbox-env-before.txt")) <= 1
  /\ \A k \in 1..n :
       /\ Cardinality(Ran(k)) <= 1
       /\ \A m \in Ran(k) :
            /\ script[m - 1] =
                 Echo([ text |-> "[INIT SCRIPT] Running", i |-> k, n |-> n ])
            /\ IF k = 1
                 THEN script[m - 2] = Silent("env > sandbox-env-before.txt")
                 ELSE m - 2 \in Ran(k - 1)
  /\ \A m \in At("command") : script[m].i \in 1..n
  /\ \A m \in At("env > sandbox-env-after.txt") :
       /\ \A k \in 1..n : \E l \in Ran(k) : l < m
       /\ \A l \in At("command") \cup At("env > sandbox-env-before.txt") : l < m
  /\ Before(At("env > sandbox-env-after.txt"), At("grep -v > ~/.sandbox-env"))
  /\ Before(At("grep -v > ~/.sandbox-env"), At("cp ~/.sandbox-env .sandbox-env.d"))
  /\ Before(At("cp ~/.sandbox-env .sandbox-env.d"),
            Wrote("[INIT SCRIPT] All commands completed"))
  /\ \A m \in Wrote("[INIT SCRIPT] All commands completed") :
       \A k \in 1..n : Cardinality(Ran(k)) = 1

\* the script of MaxCommands commands has written its completion line
C35_Witness ==
  /\ Len(startup.commands) = MaxCommands
  /\ Wrote("[INIT SCRIPT] All commands completed") # {}
  /\ At("cp ~/.sandbox-env .sandbox-env.d") # {}

\* a setup command of the generated script has failed
Failed(k) == \E m \in Ran(k) : ~script[m].ok

PipelineRank(position) ==
  IF position = "cli" THEN 0
  ELSE IF position \in Range(StepOrder) THEN 2 * PositionIn(StepOrder, position)
  ELSE IF position \in {"waitForInit", "attached"}
    THEN 2 * PositionIn(StepOrder, "attachTerminal") + 1
  ELSE IF position = "sessionCompleted" THEN 2 * Len(StepOrder) + 2
  ELSE 2 * Len(StepOrder) + 3

\* the session is in one of its terminal states
TerminalState ==
  /\ pc \in {"done", "failed"}
  /\ phases # <<>>
  /\ phases[Len(phases)] =
       (IF pc = "failed" THEN "Failed"
        ELSE IF options.preserveContainer THEN "Preserved" ELSE "TornDown")

\* C37: when every external call returns and the interactive process exits,
\* every session reaches TornDown, Preserved or Failed, and stays there; no
\* position of the pipeline and no state of the session is entered twice
C37_EventuallyTerminal ==
  /\ <>[]TerminalState
  /\ [][ /\ PipelineRank(pc') > PipelineRank(pc)
         /\ \A i, j \in DOMAIN phases' : i # j => phases'[i] # phases'[j]
         /\ \A i, j \in DOMAIN calls' : i # j => calls'[i] # calls'[j] ]_vars

\* a session whose interactive process has exited and that was torn down
C37_Witness ==
  /\ TerminalState
  /\ pc = "done"
  /\ child = "exited"
  /\ container.state = "removed"
  /\ phases[Len(phases)] = "TornDown"

\* the project settings file is there, is JSON and matches the schema: an
\* object whose commands, when present, is a list of one or more strings
WellFormed(file) ==
  /\ file.exists /\ file.readable /\ file.valid
  /\ file.doc.t = "obj"
  /\ \A i \in 1..Len(file.doc.items) :
       file.doc.items[i].key = "commands" =>
         LET c == file.doc.items[i].value IN
         /\ c.t = "arr"
         /\ c.items # <<>>
         /\ \A k \in 1..Len(c.items) : c.items[k].value.t = "str"

\* C38: loadConfig never raises; it returns null when the project settings
\* file is missing, is not JSON or does not match the schema (an empty
\* commands list included); a commands list it returns is non-empty; a
\* malformed file does not fail the session, it only skips executeCommands
C38_LoadConfigNeverRaises ==
  sandboxConfig.called =>
    /\ ~sandboxConfig.raised
    /\ ~WellFormed(projectSettings) => sandboxConfig.null
    /\ (~sandboxConfig.null /\ sandboxConfig.defined) =>
         Len(sandboxConfig.commands) > 0
    /\ ~WellFormed(projectSettings) =>
         /\ pc # "failed"
         /\ error = ""
         /\ "executeCommands" \notin Range(calls)
         /\ execLog = <<>>

\* a file whose commands list is empty: null was returned and the session
\* has gone on to attachTerminal without executeCommands
C38_Witness ==
  /\ sandboxConfig.called
  /\ projectSettings.valid
  /\ Member(projectSettings.doc, "commands") = JArr(<<>>)
  /\ sandboxConfig.null
  /\ pc = "attachTerminal"
  /\ "executeCommands" \notin Range(calls)

====
